---- MODULE Spec2Model ----
(***************************************************************************)
(* AugustCredits backend: the request admission-and-forwarding pipeline    *)
(* (gateway.rs, proxy.rs), the in-memory sliding-window rate limiter       *)
(* (metering.rs) and the storage calls they make (database.rs).            *)
(*                                                                         *)
(* Time is counted in whole seconds, as SystemTime::as_secs() does, and    *)
(* the clock never runs backwards.                                         *)
(* Option<T> values are sequences: None is << >>, Some(v) is <<v>>.        *)
(***************************************************************************)
EXTENDS Integers, Sequences, FiniteSets, TLC

\* ---------------------------------------------------------------- bounds
\* The clock runs from 0 to MaxTime seconds.
MaxTime == 2
\* Total number of check_rate_limit calls started in one behaviour.
MaxChecks == 3

\* Number of calls entering the proxy route in one behaviour.
MaxCalls == 2

\* ------------------------------------------------------ program constants
default_rate_limit == 1000
default_window_seconds == 3600
\* Backoff base, in milliseconds (gateway.rs 289, proxy.rs 366).
base_delay_ms == 100
\* ProxyService defaults: retry_attempts.unwrap_or(3), rate_limit_window.unwrap_or(60).
proxy_default_retries == 3
proxy_default_window == 60
\* Tier limits of get_rate_limit_for_user.
tier_limit_free == 100
tier_limit_pro == 1000
tier_limit_enterprise == 5000
tier_limit_admin == 10000

None == << >>
Some(v) == <<v>>
IsSome(o) == Len(o) = 1
Unwrap(o) == o[1]
UnwrapOr(o, d) == IF IsSome(o) THEN o[1] ELSE d

\* `x as u32` of an i32: a value >= 0 is kept, a negative one wraps to
\* x + 2^32 >= 2^31. That is beyond TLC's integers and is represented by the
\* largest of them, which compares like it with every count and age here.
AsU32(x) == IF x >= 0 THEN x ELSE 2147483647

Users == {"u1", "u2"}
Endpoints == {"e1"}
Tasks == {"t1", "t2"}
Keys == Users \X Endpoints

\* A users row (models.rs User) and an api_endpoints row (ApiEndpoint), with
\* the columns the pipeline reads.
NewUser ==
    [is_active |-> TRUE, tier |-> "Free", monthly_limit |-> None,
     rate_limit_override |-> None]
NewEndpoint ==
    [is_active |-> TRUE, allowed_methods |-> {"GET"}, price_per_request |-> 1,
     rate_limit |-> None, rate_limit_window |-> None, retry_attempts |-> None]

VARIABLES
    now,          \* SystemTime::now() in seconds
    users,        \* users table: user id -> [rate_limit_override]
    endpoints,    \* api_endpoints table: endpoint id -> [rate_limit, rate_limit_window]
    rate_limits,  \* MeteringService.rate_limits: cache key -> RateLimitWindow
    rl_lock,      \* holder of the RwLock's write guard, << >> when free
    task,         \* one record per running check_rate_limit call
    admitted,     \* history: key -> timestamps of all admitted checks, oldest first
    checks,       \* number of check_rate_limit calls started
    call,         \* the call being processed on the proxy route
    ncalls,       \* number of calls started
    request_logs, \* request_logs table, in insertion order: the columns
                  \* user_id, endpoint_id, request_id, created_at
    usage_records,\* usage_records table, in insertion order: the columns
                  \* user_id, endpoint_id, request_count, timestamp
    spawned,      \* tokio::spawn'ed logging jobs of process_request not yet run
    recorder,     \* one record per running update_usage_metrics call
    recorded,     \* history: the deltas of the recordings made, with their outcome
    cycle,        \* one record per running process_billing call
    ncycles,      \* number of process_billing calls started
    nupdates,     \* number of update_usage_status calls made
    exec,         \* the running execute_transaction call
    chain,        \* the chain as the provider reports it: height, receipt
    auth,         \* a request on its way through auth_middleware and extract_api_key
    calc,         \* arguments and results of the auth.rs helper functions
    hdrs,         \* a request's headers and the headers sent upstream for it
    proxy_calls,  \* one record per concurrent ProxyService::proxy_request call
    fwd           \* a retry loop's inputs and what each forwarder made of them

lvars == <<now, users, endpoints, rate_limits, rl_lock, task, admitted, checks>>
pvars == <<call, ncalls, request_logs, usage_records, spawned>>
bvars == <<cycle, ncycles, nupdates>>
evars == <<exec, chain>>
avars == <<auth>>
cvars == <<calc>>
hvars == <<hdrs>>
qvars == <<proxy_calls>>
fvars == <<fwd>>
xvars == <<recorder, recorded, bvars, evars, avars, cvars, hvars, qvars, fvars>>
vars == <<lvars, pvars, xvars>>

\* ------------------------------------------------------- RateLimitWindow
RateLimitWindowNew(limit, window_seconds) ==
    [requests |-> << >>, limit |-> limit, window_seconds |-> window_seconds]

\* The retain predicate of can_make_request and cleanup_rate_limits.
UnexpiredInclusive(timestamp, t, window_seconds) == t - timestamp <= window_seconds
Unexpired(timestamp, t, window_seconds) == t - timestamp < window_seconds

Retain(requests, t, window_seconds) ==
    SelectSeq(requests, LAMBDA timestamp : Unexpired(timestamp, t, window_seconds))

\* `self.requests.len() < self.limit as usize`
HasCapacityOffByOne(w) == Len(w.requests) <= w.limit
HasCapacity(w) == Len(w.requests) < w.limit

remaining_requests(w) ==
    IF w.limit >= Len(w.requests) THEN w.limit - Len(w.requests) ELSE 0

reset_time(w) ==
    IF w.requests = << >> THEN None ELSE Some(w.requests[1] + w.window_seconds)

\* ------------------------------------------------------- MeteringService
\* Priority: user override > endpoint limit > default.
get_rate_limit(user, endpoint) ==
    LET limit ==
            IF IsSome(user.rate_limit_override)
            THEN AsU32(Unwrap(user.rate_limit_override))
            ELSE IF IsSome(endpoint.rate_limit)
                 THEN AsU32(Unwrap(endpoint.rate_limit))
                 ELSE default_rate_limit
        window ==
            IF IsSome(endpoint.rate_limit_window)
            THEN AsU32(Unwrap(endpoint.rate_limit_window))
            ELSE default_window_seconds
    IN  <<limit, window>>

cache_key(user_id, endpoint_id) == <<user_id, endpoint_id>>

IdleTask ==
    [pc |-> "idle", key |-> cache_key("u1", "e1"), limit |-> 0, window |-> 0,
     t_now |-> 0, pre |-> << >>, result |-> "none"]

TaskKey(t) == task[t].key

\* The proxy route's call record before a request has arrived.
IdleCall ==
    [id |-> 0, path |-> "none", cred |-> "none", endpoint_name |-> "none",
     method |-> "GET", pc |-> "idle", user |-> "none", endpoint |-> "none",
     steps |-> << >>, failed |-> "none", forwarder |-> FALSE, max_retries |-> 0,
     sent |-> 0, fails |-> << >>, delays |-> << >>, response |-> None,
     resp_at |-> 0, fwd_error |-> "none", result |-> "none",
     current |-> 0, limit |-> 0, reset_time |-> None]

\* Concurrent callers of update_usage_metrics.
Recorders == {"r1", "r2"}

IdleRecorder ==
    [pc |-> "idle", user_id |-> "none", endpoint_id |-> "none", request_count |-> 0,
     cost |-> 0, billing_period |-> 0, result |-> "none"]

\* Concurrent callers of process_billing (POST /admin/billing).
Cycles == {"c1", "c2"}

IdleCycle ==
    [pc |-> "idle", users_to_bill |-> {}, picked |-> {}, result |-> "none"]

\* struct TransactionResult, wrapped in the Result execute_transaction
\* returns: kind is "Ok", "Err", "Panic" or "none" while the call runs.
NoResult ==
    [kind |-> "none", status |-> "none", confirmations |-> 0,
     block_number |-> None]

\* execute_transaction's and wait_for_confirmation's locals, with the values
\* of BlockchainConfig the call reads.  sent, fails, receipt_polls,
\* height_polls, slept, seen, latest and rpc_err are history.
IdleExec ==
    [pc              |-> "idle",
     retry_attempts  |-> 0,
     required_confirmations |-> 0,
     attempt         |-> 0,
     sent            |-> 0,
     fails           |-> 0,
     slept           |-> << >>,
     receipt_polls   |-> 0,
     height_polls    |-> 0,
     seen            |-> None,
     rpc_err         |-> FALSE,
     block_number    |-> 0,
     latest          |-> 0,
     confirmations   |-> 0,
     result          |-> NoResult]

EmptyChain == [height |-> 0, receipt |-> None]

\* No usage recording, no billing cycle and no transaction is running.
EIdle ==
    /\ exec = IdleExec
    /\ chain = EmptyChain

\* A request before it has arrived: the two headers read for credentials
\* and the progress of their resolution.  authenticated is the user the
\* middleware put into the request's extensions, user the one the gateway
\* resolved; db_error is history.
IdleAuth ==
    [pc |-> "idle", authorization |-> None, x_api_key |-> None,
     authenticated |-> "none", user |-> "none", status |-> 0, db_error |-> FALSE]

\* The helpers' arguments before any is chosen, and no result yet.
IdleCalc ==
    [user |-> NewUser, endpoint_limit |-> None, required_tier |-> "Free",
     metering_limit |-> None, auth_limit |-> None, permitted |-> None]

\* No request: no incoming headers, nothing sent on either path.
\* No retry loop under comparison.
IdleFwd == [retry_attempts |-> None, outcomes |-> << >>, gateway |-> None, proxy |-> None]

IdleHdrs == [incoming |-> << >>, gateway_sent |-> None, proxy_sent |-> None]

\* Concurrent callers of ProxyService::proxy_request.
ProxyCalls == {"q1", "q2"}

\* A proxy_request call before it starts; sent_at is history: the second at
\* which the call was forwarded upstream, None while it was not.
IdleProxyCall ==
    [pc |-> "idle", user |-> "none", endpoint |-> "none", sent_at |-> None,
     upstream_ok |-> FALSE, result |-> "none"]

XIdle ==
    /\ auth = IdleAuth
    /\ hdrs = IdleHdrs
    /\ proxy_calls = [q \in ProxyCalls |-> IdleProxyCall]
    /\ fwd = IdleFwd
    /\ calc = IdleCalc
    /\ recorder = [r \in Recorders |-> IdleRecorder]
    /\ recorded = << >>
    /\ cycle = [c \in Cycles |-> IdleCycle]
    /\ ncycles = 0
    /\ nupdates = 0
    /\ EIdle

\* `self.rate_limits.write().await`: the guard is granted when no one holds it.
CanAcquireWriteUnguarded == TRUE
CanAcquireWrite == rl_lock = None

LimiterInit ==
    /\ now = 0
    /\ \E o \in {None, Some(1)} :
         users = [u \in Users |->
                    [NewUser EXCEPT !.rate_limit_override = IF u = "u1" THEN o ELSE None]]
    /\ \E w \in {Some(1), Some(2)} :
         endpoints = [e \in Endpoints |->
                    [NewEndpoint EXCEPT !.rate_limit = Some(2), !.rate_limit_window = w]]
    /\ rate_limits = << >>
    /\ rl_lock = None
    /\ task = [t \in Tasks |-> IdleTask]
    /\ admitted = [k \in Keys |-> << >>]
    /\ checks = 0
    /\ call = IdleCall
    /\ ncalls = 0
    /\ request_logs = << >>
    /\ usage_records = << >>
    /\ spawned = << >>
    /\ XIdle

\* The clock advances by one second.
Tick ==
    /\ now < MaxTime
    /\ now' = now + 1
    /\ UNCHANGED <<users, endpoints, rate_limits, rl_lock, task, admitted, checks, pvars, xvars>>

\* A caller enters check_rate_limit(user_id, endpoint_id).
StartCheck(t, u, e) ==
    /\ task[t].pc \in {"idle", "done"}
    /\ checks < MaxChecks
    /\ checks' = checks + 1
    /\ task' = [task EXCEPT ![t] = [IdleTask EXCEPT !.pc = "read", !.key = cache_key(u, e)]]
    /\ UNCHANGED <<now, users, endpoints, rate_limits, rl_lock, admitted, pvars, xvars>>

\* get_endpoint_by_id, get_user_by_id and get_rate_limit (metering.rs 96-111).
\* Either query can fail or find no row.
ReadConfig(t) ==
    /\ task[t].pc = "read"
    /\ \E outcome \in {"ok", "db_error", "missing"} :
         LET lw == get_rate_limit(users[TaskKey(t)[1]], endpoints[TaskKey(t)[2]])
         IN  task' = [task EXCEPT ![t] =
                 CASE outcome = "ok" ->
                        [@ EXCEPT !.pc = "lock", !.limit = lw[1], !.window = lw[2]]
                   [] outcome = "db_error" ->
                        [@ EXCEPT !.pc = "done", !.result = "Database"]
                   [] outcome = "missing" ->
                        [@ EXCEPT !.pc = "done", !.result = "NotFound"]]
    /\ UNCHANGED <<now, users, endpoints, rate_limits, rl_lock, admitted, checks, pvars, xvars>>

\* `let mut rate_limits = self.rate_limits.write().await;`
AcquireWrite(t) ==
    /\ task[t].pc = "lock"
    /\ CanAcquireWrite
    /\ rl_lock' = Some(t)
    /\ task' = [task EXCEPT ![t].pc = "entry"]
    /\ UNCHANGED <<now, users, endpoints, rate_limits, admitted, checks, pvars, xvars>>

\* entry(cache_key).or_insert_with(..), then the first half of
\* can_make_request: read the clock and drop the expired timestamps.
EntryAndPrune(t) ==
    /\ task[t].pc = "entry"
    /\ LET k == TaskKey(t)
           w == IF k \in DOMAIN rate_limits
                THEN rate_limits[k]
                ELSE RateLimitWindowNew(task[t].limit, task[t].window)
           pruned == [w EXCEPT !.requests = Retain(w.requests, now, w.window_seconds)]
       IN  /\ rate_limits' = [x \in (DOMAIN rate_limits) \cup {k} |->
                                 IF x = k THEN pruned ELSE rate_limits[x]]
           /\ task' = [task EXCEPT ![t].pc = "check", ![t].t_now = now,
                                   ![t].pre = w.requests]
    /\ UNCHANGED <<now, users, endpoints, rl_lock, admitted, checks, pvars, xvars>>

\* The capacity test with an else branch that pushes the clock reading
\* before it returns false.
CheckCapacityRecording(t) ==
    /\ task[t].pc = "check"
    /\ IF TaskKey(t) \in DOMAIN rate_limits /\ HasCapacity(rate_limits[TaskKey(t)])
       THEN /\ task' = [task EXCEPT ![t].pc = "push"]
            /\ UNCHANGED <<rl_lock, rate_limits>>
       ELSE /\ task' = [task EXCEPT ![t].pc = "done", ![t].result = "RateLimit"]
            /\ rl_lock' = None
            /\ rate_limits' =
                  IF TaskKey(t) \in DOMAIN rate_limits
                  THEN [rate_limits EXCEPT ![TaskKey(t)].requests =
                            Append(@, task[t].t_now)]
                  ELSE rate_limits
    /\ UNCHANGED <<now, users, endpoints, admitted, checks, pvars, xvars>>

\* `if self.requests.len() < self.limit as usize`; the else branch returns
\* false, check_rate_limit returns Err(RateLimit) and drops the guard.
CheckCapacity(t) ==
    /\ task[t].pc = "check"
    /\ IF TaskKey(t) \in DOMAIN rate_limits /\ HasCapacity(rate_limits[TaskKey(t)])
       THEN /\ task' = [task EXCEPT ![t].pc = "push"]
            /\ UNCHANGED rl_lock
       ELSE /\ task' = [task EXCEPT ![t].pc = "done", ![t].result = "RateLimit"]
            /\ rl_lock' = None
    /\ UNCHANGED <<now, users, endpoints, rate_limits, admitted, checks, pvars, xvars>>

\* `self.requests.push(now); true`, then Ok(()) and the guard is dropped.
PushAndAdmit(t) ==
    /\ task[t].pc = "push"
    /\ LET k == TaskKey(t)
       IN  /\ rate_limits' =
                 IF k \in DOMAIN rate_limits
                 THEN [rate_limits EXCEPT ![k].requests = Append(@, task[t].t_now)]
                 ELSE rate_limits
           /\ admitted' = [admitted EXCEPT ![k] = Append(@, task[t].t_now)]
    /\ task' = [task EXCEPT ![t].pc = "done", ![t].result = "Ok"]
    /\ rl_lock' = None
    /\ UNCHANGED <<now, users, endpoints, checks, pvars, xvars>>

\* cleanup_rate_limits: under the write guard, prune every window and drop
\* the keys whose window is left empty.
CleanupRateLimits ==
    /\ CanAcquireWrite
    /\ LET pruned == [k \in DOMAIN rate_limits |->
                        [rate_limits[k] EXCEPT !.requests =
                            Retain(@, now, rate_limits[k].window_seconds)]]
           kept == {k \in DOMAIN rate_limits : pruned[k].requests # << >>}
       IN  rate_limits' = [k \in kept |-> pruned[k]]
    /\ UNCHANGED <<now, users, endpoints, rl_lock, task, admitted, checks, pvars, xvars>>

LimiterNext ==
    \/ Tick
    \/ \E t \in Tasks, u \in Users, e \in Endpoints : StartCheck(t, u, e)
    \/ \E t \in Tasks : ReadConfig(t)
    \/ \E t \in Tasks : AcquireWrite(t)
    \/ \E t \in Tasks : EntryAndPrune(t)
    \/ \E t \in Tasks : CheckCapacity(t)
    \/ \E t \in Tasks : PushAndAdmit(t)
    \/ CleanupRateLimits

SpecLimiter == LimiterInit /\ [][LimiterNext]_vars

\* The limiter while the configuration it reads is being edited.
\* update_user: `rate_limit_override = COALESCE($7, rate_limit_override)`,
\* a request without the field leaves the column as it is.
update_user(user_id, rate_limit_override) ==
    /\ users' = [users EXCEPT ![user_id].rate_limit_override =
                    IF IsSome(rate_limit_override) THEN rate_limit_override ELSE @]
    /\ UNCHANGED <<now, endpoints, rate_limits, rl_lock, task, admitted, checks, pvars, xvars>>

\* update_endpoint: `rate_limit = COALESCE($6, rate_limit)`,
\* `rate_limit_window = COALESCE($7, rate_limit_window)`.
update_endpoint(endpoint_id, rate_limit, rate_limit_window) ==
    /\ endpoints' = [endpoints EXCEPT
                       ![endpoint_id].rate_limit =
                           IF IsSome(rate_limit) THEN rate_limit ELSE @,
                       ![endpoint_id].rate_limit_window =
                           IF IsSome(rate_limit_window) THEN rate_limit_window ELSE @]
    /\ UNCHANGED <<now, users, rate_limits, rl_lock, task, admitted, checks, pvars, xvars>>

\* No caller has an override, e1 allows 2 requests per second.
ReconfigInit ==
    /\ LimiterInit
    /\ \A u \in Users : users[u].rate_limit_override = None
    /\ \A e \in Endpoints : endpoints[e].rate_limit_window = Some(1)

\* The edits: an override of 1 for a caller, a window of 2 s for e1.
ReconfigNext ==
    \/ LimiterNext
    \/ \E u \in Users : update_user(u, Some(1))
    \/ \E e \in Endpoints : update_endpoint(e, None, Some(2))

SpecReconfig == ReconfigInit /\ [][ReconfigNext]_vars

\* The limiter as the server built by main() runs it: the router's handlers
\* call check_rate_limit, and nothing in main() or in the services spawns
\* or schedules cleanup_rate_limits.  The clock runs on and every started
\* check is polled to its end.
CheckStep(t) ==
    \/ ReadConfig(t)
    \/ AcquireWrite(t)
    \/ EntryAndPrune(t)
    \/ CheckCapacity(t)
    \/ PushAndAdmit(t)

ServerNext ==
    \/ Tick
    \/ \E t \in Tasks, u \in Users, e \in Endpoints : StartCheck(t, u, e)
    \/ \E t \in Tasks : CheckStep(t)

SpecServer ==
    /\ LimiterInit
    /\ [][ServerNext]_vars
    /\ WF_vars(Tick)
    /\ \A t \in Tasks : WF_vars(CheckStep(t))

\* The same limiter next to a task that runs the sweep again and again.
SpecSwept ==
    /\ LimiterInit
    /\ [][LimiterNext]_vars
    /\ WF_vars(Tick)
    /\ \A t \in Tasks : WF_vars(CheckStep(t))
    /\ WF_vars(CleanupRateLimits)

\* `impl IntoResponse for AppError` (error.rs 60-111): the HTTP status of an
\* error of the gateway path.
AppErrorStatus(err) ==
    CASE err = "Database" -> 500
      [] err = "Auth" -> 401
      [] err = "Validation" -> 400
      [] err = "RateLimit" -> 429
      [] err = "ExternalService" -> 502
      [] err = "NotFound" -> 404
      [] err = "Internal" -> 500
      [] OTHER -> 0

\* `impl IntoResponse for ProxyError` (proxy.rs 589-613) and, for the
\* extractor's rejections, `impl IntoResponse for AuthError`.
ProxyErrorStatus(err) ==
    CASE err = "EndpointNotFound" -> 404
      [] err = "EndpointInactive" -> 503
      [] err = "MethodNotAllowed" -> 405
      [] err = "RateLimitExceeded" -> 429
      [] err = "MonthlyLimitExceeded" -> 429
      [] err = "InvalidRequestBody" -> 400
      [] err = "Timeout" -> 504
      [] err = "UpstreamError" -> 502
      [] err = "DatabaseError" -> 500
      [] err = "MissingCredentials" -> 401
      [] err = "InvalidApiKey" -> 401
      [] err = "UserInactive" -> 403
      [] err = "AuthDatabaseError" -> 500
      [] OTHER -> 0

\* The status line the caller of a finished call sees; 0 when the handler
\* panicked or the error's status is not modelled.
HttpStatus(c) ==
    IF c.result = "Response" THEN Unwrap(c.response)
    ELSE IF c.path = "gateway" THEN AppErrorStatus(c.result)
    ELSE ProxyErrorStatus(c.result)

\* =========================================================================
\* The proxy route: GatewayService::process_request (path "gateway") and
\* handle_proxy_request + ProxyService::proxy_request (path "proxy").
\* =========================================================================
AdmissionOrder == <<"credential", "resource", "method", "rate_limit", "monthly_quota">>

\* Credentials a call can carry: none, an unknown key, or the key of a user.
Creds == {"none", "bad"} \cup Users
\* Endpoint names a call can ask for: e1 (active), e0 (inactive), nope (absent).
InactiveEndpoints == {"e0"}
AllEndpoints == Endpoints \cup InactiveEndpoints
EndpointNames == AllEndpoints \cup {"nope"}
Methods == {"GET", "POST"}

\* What one upstream attempt can produce: a response (whose body may fail to
\* arrive), a connection error, or a timeout.
UpstreamOutcomes ==
    [kind : {"response"}, status : {200, 503}, body_ok : BOOLEAN]
    \cup [kind : {"connect", "timeout"}, status : {0}, body_ok : {FALSE}]

\* get_user_by_api_key: `WHERE api_key = $1 AND is_active = true`.
get_user_by_api_key(api_key) ==
    IF api_key \in DOMAIN users /\ users[api_key].is_active THEN Some(api_key) ELSE None

\* get_endpoint_by_name: `WHERE name = $1 AND is_active = true`.
get_endpoint_by_name(name) ==
    IF name \in DOMAIN endpoints /\ endpoints[name].is_active THEN Some(name) ELSE None

\* Delay slept after failed attempt number `attempt`, in milliseconds.
BackoffDelayLinear(attempt) == base_delay_ms * attempt
BackoffDelayMs(attempt) == base_delay_ms * (2 ^ (attempt - 1))

\* forward_request: `endpoint.retry_attempts.unwrap_or(0) + 1`.
GatewayMaxRetries(endpoint) == UnwrapOr(endpoint.retry_attempts, 0) + 1
\* proxy_request: `endpoint.retry_attempts.unwrap_or(3)`.
ProxySingleAttempt(endpoint) == 1
ProxyMaxRetries(endpoint) == UnwrapOr(endpoint.retry_attempts, proxy_default_retries)

TierLimit(tier) ==
    CASE tier = "Free" -> tier_limit_free
      [] tier = "Pro" -> tier_limit_pro
      [] tier = "Enterprise" -> tier_limit_enterprise
      [] tier = "Admin" -> tier_limit_admin

Min(a, b) == IF a <= b THEN a ELSE b

\* A variant of get_rate_limit_for_user in which the endpoint's limit
\* replaces the tier's limit instead of capping it.
get_rate_limit_for_user_uncapped(user, endpoint_limit) ==
    IF IsSome(user.rate_limit_override)
    THEN Unwrap(user.rate_limit_override)
    ELSE IF IsSome(endpoint_limit)
         THEN Unwrap(endpoint_limit)
         ELSE TierLimit(user.tier)

\* auth.rs get_rate_limit_for_user.
get_rate_limit_for_user(user, endpoint_limit) ==
    IF IsSome(user.rate_limit_override)
    THEN Unwrap(user.rate_limit_override)
    ELSE IF IsSome(endpoint_limit)
         THEN Min(TierLimit(user.tier), Unwrap(endpoint_limit))
         ELSE TierLimit(user.tier)

\* Referenced by proxy.rs and defined nowhere in the sources: the caller's
\* monthly request quota.
get_monthly_limit_for_user(user) == user.monthly_limit

\* Database::check_rate_limit: rows of request_logs of the pair with
\* `created_at >= now - window`.
DbRequestCount(user_id, endpoint_id, window) ==
    Cardinality({i \in DOMAIN request_logs :
                    /\ request_logs[i].user_id = user_id
                    /\ request_logs[i].endpoint_id = endpoint_id
                    /\ request_logs[i].created_at >= now - window})

\* Database::create_usage_record: one INSERT statement, a new row each time.
MergeUsageRecord(table, row) ==
    IF \E i \in DOMAIN table : /\ table[i].user_id = row.user_id
                               /\ table[i].endpoint_id = row.endpoint_id
    THEN [i \in DOMAIN table |->
            IF table[i].user_id = row.user_id /\ table[i].endpoint_id = row.endpoint_id
            THEN row ELSE table[i]]
    ELSE Append(table, row)
InsertUsageRecord(table, row) == Append(table, row)

\* The modelled seconds all lie in one calendar month, which starts at 0.
StartOfMonth(t) == 0

RECURSIVE SumCounts(_)
SumCounts(rows) ==
    IF rows = << >> THEN 0 ELSE Head(rows).request_count + SumCounts(Tail(rows))

\* get_user_usage(user, start_of_month, now) and the sum of request_count.
\* The query filters on the row's creation time, which create_usage_record
\* sets to the clock value it also binds to `timestamp`.
MonthlyUsage(user_id) ==
    SumCounts(SelectSeq(usage_records,
        LAMBDA r : /\ r.user_id = user_id
                   /\ r.timestamp >= StartOfMonth(now)
                   /\ r.timestamp <= now))

\* MeteringService::check_rate_limit from the lock on, run without
\* interruption: the write guard is held from entry() to the return.
CheckRateLimitLocked(user_id, endpoint_id) ==
    LET lw == get_rate_limit(users[user_id], endpoints[endpoint_id])
        k == cache_key(user_id, endpoint_id)
        w == IF k \in DOMAIN rate_limits
             THEN rate_limits[k]
             ELSE RateLimitWindowNew(lw[1], lw[2])
        pruned == [w EXCEPT !.requests = Retain(w.requests, now, w.window_seconds)]
        ok == HasCapacity(pruned)
        after == IF ok THEN [pruned EXCEPT !.requests = Append(@, now)] ELSE pruned
    IN  [ok |-> ok,
         reset |-> UnwrapOr(reset_time(pruned), 0),
         map |-> [x \in (DOMAIN rate_limits) \cup {k} |->
                    IF x = k THEN after ELSE rate_limits[x]]]

\* `return Err(..)` / `?` at an admission step: the handler ends there.
Reject(c, step, err) == [c EXCEPT !.pc = "done", !.failed = step, !.result = err]

\* A failure after admission: the handler ends with `err`.
Fail(c, err) == [c EXCEPT !.pc = "done", !.result = err]

\* The `?` on the rate-limit check (gateway.rs 99, proxy.rs 101): a rejected
\* check ends the handler; `next` is where an admitted call goes on.
OnRateLimitedIgnored(c, err, next) ==
    [c EXCEPT !.pc = next, !.failed = "rate_limit", !.result = err]
OnRateLimited(c, err, next) == Reject(c, "rate_limit", err)

PipelineInit ==
    /\ now = 0
    /\ \E q \in {None, Some(1)} :
         users = [u \in Users |->
                    IF u = "u1" THEN [NewUser EXCEPT !.monthly_limit = q]
                    ELSE [NewUser EXCEPT !.is_active = FALSE]]
    /\ \E r \in {None, Some(0), Some(3)} :
         endpoints = [e \in AllEndpoints |->
                    IF e \in InactiveEndpoints
                    THEN [NewEndpoint EXCEPT !.is_active = FALSE]
                    ELSE [NewEndpoint EXCEPT !.rate_limit = Some(1),
                                             !.rate_limit_window = Some(1),
                                             !.retry_attempts = r]]
    /\ rate_limits = << >>
    /\ rl_lock = None
    /\ task = [t \in Tasks |-> IdleTask]
    /\ admitted = [k \in Keys |-> << >>]
    /\ checks = 0
    /\ call = IdleCall
    /\ ncalls = 0
    /\ request_logs = << >>
    /\ usage_records = << >>
    /\ spawned = << >>
    /\ XIdle

ltask == <<rl_lock, task, admitted, checks>>

\* A request arrives on the proxy route.
StartCall(path, cred, name, method) ==
    /\ call.pc \in {"idle", "done"}
    /\ ncalls < MaxCalls
    /\ ncalls' = ncalls + 1
    /\ call' = [IdleCall EXCEPT !.id = ncalls + 1, !.path = path, !.cred = cred,
                                !.endpoint_name = name, !.method = method,
                                !.pc = "auth"]
    /\ UNCHANGED <<now, users, endpoints, rate_limits, ltask, xvars, request_logs,
                   usage_records, spawned>>

\* ------------------------------------------ GatewayService::process_request
\* extract_api_key and authenticate_api_key; every failure becomes Auth.
G_Authenticate ==
    /\ call.path = "gateway" /\ call.pc = "auth"
    /\ \E db \in {"ok", "error"} :
         LET c == [call EXCEPT !.steps = Append(@, "credential")]
             row == get_user_by_api_key(call.cred)
         IN  call' = IF call.cred = "none" \/ db = "error" \/ row = None
                     THEN Reject(c, "credential", "Auth")
                     ELSE [c EXCEPT !.user = Unwrap(row), !.pc = "endpoint"]
    /\ UNCHANGED <<now, users, endpoints, rate_limits, ltask, xvars, ncalls, request_logs,
                   usage_records, spawned>>

\* get_endpoint_by_name, the is_active check and the allowed_methods check.
G_Endpoint ==
    /\ call.path = "gateway" /\ call.pc = "endpoint"
    /\ \E db \in {"ok", "error"} :
         LET c == [call EXCEPT !.steps = Append(@, "resource")]
             row == get_endpoint_by_name(call.endpoint_name)
         IN  call' =
               IF db = "error" THEN Reject(c, "resource", "Database")
               ELSE IF row = None THEN Reject(c, "resource", "NotFound")
               ELSE IF ~endpoints[Unwrap(row)].is_active
                    THEN Reject(c, "resource", "Validation")
               ELSE LET m == [c EXCEPT !.endpoint = Unwrap(row),
                                       !.steps = Append(@, "method")]
                    IN  IF call.method \notin endpoints[Unwrap(row)].allowed_methods
                        THEN Reject(m, "method", "Validation")
                        ELSE [m EXCEPT !.pc = "rate_limit"]
    /\ UNCHANGED <<now, users, endpoints, rate_limits, ltask, xvars, ncalls, request_logs,
                   usage_records, spawned>>

\* `self.metering.check_rate_limit(user.id, endpoint.id).await?`
G_RateLimit ==
    /\ call.path = "gateway" /\ call.pc = "rate_limit"
    /\ \E db \in {"ok", "error"} :
         LET c == [call EXCEPT !.steps = Append(@, "rate_limit")]
             r == CheckRateLimitLocked(call.user, call.endpoint)
         IN  IF db = "error"
             THEN /\ call' = Reject(c, "rate_limit", "Database")
                  /\ UNCHANGED rate_limits
             ELSE /\ rate_limits' = r.map
                  /\ call' = IF r.ok THEN [c EXCEPT !.pc = "body"]
                             ELSE OnRateLimited([c EXCEPT !.reset_time = Some(r.reset)],
                                                "RateLimit", "body")
    /\ UNCHANGED <<now, users, endpoints, ltask, xvars, ncalls, request_logs,
                   usage_records, spawned>>

\* axum::body::to_bytes, then forward_request up to the retry loop.
G_Body ==
    /\ call.path = "gateway" /\ call.pc = "body"
    /\ \E ok \in BOOLEAN :
         LET max == GatewayMaxRetries(endpoints[call.endpoint])
             f == [call EXCEPT !.forwarder = TRUE, !.max_retries = max]
         IN  call' = IF ~ok THEN Fail(call, "Internal")
                     ELSE IF max < 1 THEN Fail(f, "panic")
                     ELSE [f EXCEPT !.pc = "send"]
    /\ UNCHANGED <<now, users, endpoints, rate_limits, ltask, xvars, ncalls, request_logs,
                   usage_records, spawned>>

\* One iteration of `for attempt in 1..=max_retries` of forward_request.
G_Send ==
    /\ call.path = "gateway" /\ call.pc = "send"
    /\ \E o \in UpstreamOutcomes :
         LET attempt == call.sent + 1
             c == [call EXCEPT !.sent = attempt]
         IN  call' =
               IF o.kind = "response"
               THEN IF o.body_ok
                    THEN [c EXCEPT !.response = Some(o.status), !.resp_at = attempt,
                                   !.pc = "return"]
                    ELSE Fail(c, "ExternalService")
               ELSE LET e == [c EXCEPT !.fails = Append(@, o.kind)]
                    IN  IF attempt < call.max_retries
                        THEN [e EXCEPT !.pc = "backoff"]
                        ELSE Fail([e EXCEPT !.fwd_error = "ExternalService"],
                                  "ExternalService")
    /\ UNCHANGED <<now, users, endpoints, rate_limits, ltask, xvars, ncalls, request_logs,
                   usage_records, spawned>>

\* `tokio::time::sleep(delay).await` between two attempts.
G_Backoff ==
    /\ call.path = "gateway" /\ call.pc = "backoff"
    /\ call' = [call EXCEPT !.delays = Append(@, BackoffDelayMs(call.sent)),
                            !.pc = "send"]
    /\ UNCHANGED <<now, users, endpoints, rate_limits, ltask, xvars, ncalls, request_logs,
                   usage_records, spawned>>

\* The response is returned; logging and metering are spawned.
G_Return ==
    /\ call.path = "gateway" /\ call.pc = "return"
    /\ spawned' = Append(spawned,
            [user_id |-> call.user, endpoint_id |-> call.endpoint,
             request_id |-> call.id])
    /\ call' = Fail(call, "Response")
    /\ UNCHANGED <<now, users, endpoints, rate_limits, ltask, xvars, ncalls, request_logs,
                   usage_records>>

\* The spawned job: create_request_log, then record_request (which only
\* reads). Errors are logged and dropped.
SpawnedLogTask ==
    /\ spawned # << >>
    /\ \E ok \in BOOLEAN :
         request_logs' =
             IF ok
             THEN Append(request_logs,
                    [user_id |-> Head(spawned).user_id,
                     endpoint_id |-> Head(spawned).endpoint_id,
                     request_id |-> Head(spawned).request_id,
                     created_at |-> now])
             ELSE request_logs
    /\ spawned' = Tail(spawned)
    /\ UNCHANGED <<now, users, endpoints, rate_limits, ltask, xvars, call, ncalls,
                   usage_records>>

\* ------------------------------ handle_proxy_request / ProxyService
\* The AuthUser extractor with an API key.
P_AuthUser ==
    /\ call.path = "proxy" /\ call.pc = "auth"
    /\ \E db \in {"ok", "error"} :
         LET c == [call EXCEPT !.steps = Append(@, "credential")]
             row == get_user_by_api_key(call.cred)
         IN  call' =
               IF call.cred = "none" THEN Reject(c, "credential", "MissingCredentials")
               ELSE IF db = "error" THEN Reject(c, "credential", "AuthDatabaseError")
               ELSE IF row = None THEN Reject(c, "credential", "InvalidApiKey")
               ELSE IF ~users[Unwrap(row)].is_active
                    THEN Reject(c, "credential", "UserInactive")
               ELSE [c EXCEPT !.user = Unwrap(row), !.pc = "endpoint"]
    /\ UNCHANGED <<now, users, endpoints, rate_limits, ltask, xvars, ncalls, request_logs,
                   usage_records, spawned>>

\* handle_proxy_request's lookup and is_active check, then proxy_request's
\* allowed_methods check.
P_Endpoint ==
    /\ call.path = "proxy" /\ call.pc = "endpoint"
    /\ \E db \in {"ok", "error"} :
         LET c == [call EXCEPT !.steps = Append(@, "resource")]
             row == get_endpoint_by_name(call.endpoint_name)
         IN  call' =
               IF db = "error" THEN Reject(c, "resource", "DatabaseError")
               ELSE IF row = None THEN Reject(c, "resource", "EndpointNotFound")
               ELSE IF ~endpoints[Unwrap(row)].is_active
                    THEN Reject(c, "resource", "EndpointInactive")
               ELSE LET m == [c EXCEPT !.endpoint = Unwrap(row),
                                       !.steps = Append(@, "method")]
                    IN  IF call.method \notin endpoints[Unwrap(row)].allowed_methods
                        THEN Reject(m, "method", "MethodNotAllowed")
                        ELSE [m EXCEPT !.pc = "rate_limit"]
    /\ UNCHANGED <<now, users, endpoints, rate_limits, ltask, xvars, ncalls, request_logs,
                   usage_records, spawned>>

\* ProxyService::check_rate_limits.
P_RateLimits ==
    /\ call.path = "proxy" /\ call.pc = "rate_limit"
    /\ \E db \in {"ok", "error"} :
         LET c == [call EXCEPT !.steps = Append(@, "rate_limit")]
             endpoint == endpoints[call.endpoint]
             rate_limit == get_rate_limit_for_user(users[call.user], endpoint.rate_limit)
             window == UnwrapOr(endpoint.rate_limit_window, proxy_default_window)
             current_count == DbRequestCount(call.user, call.endpoint, window)
         IN  call' =
               IF db = "error" THEN Reject(c, "rate_limit", "DatabaseError")
               ELSE IF current_count >= rate_limit
                    THEN OnRateLimited([c EXCEPT !.current = current_count,
                                                 !.limit = rate_limit,
                                                 !.reset_time = Some(now + window)],
                                       "RateLimitExceeded", "monthly")
               ELSE [c EXCEPT !.pc = "monthly"]
    /\ UNCHANGED <<now, users, endpoints, rate_limits, ltask, xvars, ncalls, request_logs,
                   usage_records, spawned>>

\* ProxyService::check_monthly_limits.
P_MonthlyLimits ==
    /\ call.path = "proxy" /\ call.pc = "monthly"
    /\ \E db \in {"ok", "error"} :
         LET c == [call EXCEPT !.steps = Append(@, "monthly_quota")]
             quota == get_monthly_limit_for_user(users[call.user])
             total_requests == MonthlyUsage(call.user)
         IN  call' =
               IF quota = None THEN [c EXCEPT !.pc = "body"]
               ELSE IF db = "error" THEN Reject(c, "monthly_quota", "DatabaseError")
               ELSE IF total_requests >= Unwrap(quota)
                    THEN Reject([c EXCEPT !.current = total_requests,
                                          !.limit = Unwrap(quota)],
                                "monthly_quota", "MonthlyLimitExceeded")
               ELSE [c EXCEPT !.pc = "body"]
    /\ UNCHANGED <<now, users, endpoints, rate_limits, ltask, xvars, ncalls, request_logs,
                   usage_records, spawned>>

\* Price, URL, headers and body, then make_upstream_request up to its loop.
\* With max_retries < 1 the loop body never runs and `unreachable!()` panics.
P_Body ==
    /\ call.path = "proxy" /\ call.pc = "body"
    /\ \E ok \in BOOLEAN :
         LET max == ProxyMaxRetries(endpoints[call.endpoint])
             f == [call EXCEPT !.forwarder = TRUE, !.max_retries = max]
         IN  call' = IF ~ok THEN Fail(call, "InvalidRequestBody")
                     ELSE IF max < 1 THEN Fail(f, "panic")
                     ELSE [f EXCEPT !.pc = "send"]
    /\ UNCHANGED <<now, users, endpoints, rate_limits, ltask, xvars, ncalls, request_logs,
                   usage_records, spawned>>

\* One iteration of `for attempt in 1..=max_retries` of make_upstream_request;
\* a response goes back to proxy_request, which reads its body.
P_Send ==
    /\ call.path = "proxy" /\ call.pc = "send"
    /\ \E o \in UpstreamOutcomes :
         LET attempt == call.sent + 1
             c == [call EXCEPT !.sent = attempt]
         IN  call' =
               IF o.kind = "response"
               THEN IF o.body_ok
                    THEN [c EXCEPT !.response = Some(o.status), !.resp_at = attempt,
                                   !.pc = "log"]
                    ELSE Fail(c, "UpstreamError")
               ELSE LET e == [c EXCEPT !.fails = Append(@, o.kind)]
                    IN  IF attempt = call.max_retries
                        THEN [e EXCEPT !.pc = "log_failed",
                                       !.fwd_error = IF o.kind = "timeout"
                                                     THEN "Timeout"
                                                     ELSE "UpstreamError"]
                        ELSE [e EXCEPT !.pc = "backoff"]
    /\ UNCHANGED <<now, users, endpoints, rate_limits, ltask, xvars, ncalls, request_logs,
                   usage_records, spawned>>

P_Backoff ==
    /\ call.path = "proxy" /\ call.pc = "backoff"
    /\ call' = [call EXCEPT !.delays = Append(@, BackoffDelayMs(call.sent)),
                            !.pc = "send"]
    /\ UNCHANGED <<now, users, endpoints, rate_limits, ltask, xvars, ncalls, request_logs,
                   usage_records, spawned>>

\* `self.log_request(..).await?` of the Ok branch.
P_LogRequest ==
    /\ call.path = "proxy" /\ call.pc = "log"
    /\ \E ok \in BOOLEAN :
         IF ok
         THEN /\ request_logs' = Append(request_logs,
                    [user_id |-> call.user, endpoint_id |-> call.endpoint,
                     request_id |-> call.id, created_at |-> now])
              /\ call' = [call EXCEPT !.pc = "usage"]
         ELSE /\ call' = Fail(call, "DatabaseError")
              /\ UNCHANGED request_logs
    /\ UNCHANGED <<now, users, endpoints, rate_limits, ltask, xvars, ncalls,
                   usage_records, spawned>>

\* `self.update_usage_metrics(user.id, endpoint.id, 1, cost).await?`, then
\* Ok(ProxyResponse).
P_UpdateUsage ==
    /\ call.path = "proxy" /\ call.pc = "usage"
    /\ \E ok \in BOOLEAN :
         IF ok
         THEN /\ usage_records' = InsertUsageRecord(usage_records,
                    [user_id |-> call.user, endpoint_id |-> call.endpoint,
                     request_count |-> 1, timestamp |-> now])
              /\ call' = Fail(call, "Response")
         ELSE /\ call' = Fail(call, "DatabaseError")
              /\ UNCHANGED usage_records
    /\ UNCHANGED <<now, users, endpoints, rate_limits, ltask, xvars, ncalls,
                   request_logs, spawned>>

\* The Err branch: log the failed request at no cost, then return the error.
P_LogFailure ==
    /\ call.path = "proxy" /\ call.pc = "log_failed"
    /\ \E ok \in BOOLEAN :
         IF ok
         THEN /\ request_logs' = Append(request_logs,
                    [user_id |-> call.user, endpoint_id |-> call.endpoint,
                     request_id |-> call.id, created_at |-> now])
              /\ call' = Fail(call, call.fwd_error)
         ELSE /\ call' = Fail(call, "DatabaseError")
              /\ UNCHANGED request_logs
    /\ UNCHANGED <<now, users, endpoints, rate_limits, ltask, xvars, ncalls,
                   usage_records, spawned>>

PipelineNext ==
    \/ Tick
    \/ \E path \in {"gateway", "proxy"}, cred \in Creds, name \in EndpointNames,
          method \in Methods : StartCall(path, cred, name, method)
    \/ G_Authenticate
    \/ G_Endpoint
    \/ G_RateLimit
    \/ G_Body
    \/ G_Send
    \/ G_Backoff
    \/ G_Return
    \/ SpawnedLogTask
    \/ P_AuthUser
    \/ P_Endpoint
    \/ P_RateLimits
    \/ P_MonthlyLimits
    \/ P_Body
    \/ P_Send
    \/ P_Backoff
    \/ P_LogRequest
    \/ P_UpdateUsage
    \/ P_LogFailure

SpecPipeline == PipelineInit /\ [][PipelineNext]_vars

\* =========================================================================
\* ProxyService::proxy_request called by several requests at once (axum
\* runs every request as its own task).  The calls share request_logs and
\* usage_records; each step below is the code between two awaits.
\* =========================================================================
nonproxy == <<users, endpoints, rate_limits, ltask, call, ncalls, spawned,
              recorder, recorded, bvars, evars, avars, cvars, hvars, fvars>>

\* u1 may have a monthly quota of 1; e1 allows 1 or 2 requests per second.
ConcurrentInit ==
    /\ now = 0
    /\ \E q \in {None, Some(1)} :
         users = [u \in Users |->
                    IF u = "u1" THEN [NewUser EXCEPT !.monthly_limit = q] ELSE NewUser]
    /\ \E l \in {Some(1), Some(2)} :
         endpoints = [e \in Endpoints |->
                    [NewEndpoint EXCEPT !.rate_limit = l, !.rate_limit_window = Some(1)]]
    /\ rate_limits = << >>
    /\ rl_lock = None
    /\ task = [t \in Tasks |-> IdleTask]
    /\ admitted = [k \in Keys |-> << >>]
    /\ checks = 0
    /\ call = IdleCall
    /\ ncalls = 0
    /\ request_logs = << >>
    /\ usage_records = << >>
    /\ spawned = << >>
    /\ XIdle

QDone(q, result) == [proxy_calls EXCEPT ![q].pc = "done", ![q].result = result]

\* proxy_request is entered for an authenticated user and an endpoint that
\* was found; the allowed_methods check.
Q_Start(q, u, e, method) ==
    /\ proxy_calls[q].pc = "idle"
    /\ proxy_calls' =
         IF method \notin endpoints[e].allowed_methods
         THEN [proxy_calls EXCEPT ![q] = [IdleProxyCall EXCEPT
                  !.pc = "done", !.user = u, !.endpoint = e,
                  !.result = "MethodNotAllowed"]]
         ELSE [proxy_calls EXCEPT ![q] = [IdleProxyCall EXCEPT
                  !.pc = "rate_limit", !.user = u, !.endpoint = e]]
    /\ UNCHANGED <<now, nonproxy, request_logs, usage_records>>

\* check_rate_limits: the count is read from request_logs.
Q_RateLimits(q) ==
    /\ proxy_calls[q].pc = "rate_limit"
    /\ \E db \in {"ok", "error"} :
         LET c == proxy_calls[q]
             endpoint == endpoints[c.endpoint]
             rate_limit == get_rate_limit_for_user(users[c.user], endpoint.rate_limit)
             window == UnwrapOr(endpoint.rate_limit_window, proxy_default_window)
             current_count == DbRequestCount(c.user, c.endpoint, window)
         IN  proxy_calls' =
               IF db = "error" THEN QDone(q, "DatabaseError")
               ELSE IF current_count >= rate_limit THEN QDone(q, "RateLimitExceeded")
               ELSE [proxy_calls EXCEPT ![q].pc = "monthly"]
    /\ UNCHANGED <<now, nonproxy, request_logs, usage_records>>

\* check_monthly_limits: the sum is read from usage_records.
Q_MonthlyLimits(q) ==
    /\ proxy_calls[q].pc = "monthly"
    /\ \E db \in {"ok", "error"} :
         LET c == proxy_calls[q]
             quota == get_monthly_limit_for_user(users[c.user])
         IN  proxy_calls' =
               IF quota = None THEN [proxy_calls EXCEPT ![q].pc = "forward"]
               ELSE IF db = "error" THEN QDone(q, "DatabaseError")
               ELSE IF MonthlyUsage(c.user) >= Unwrap(quota)
                    THEN QDone(q, "MonthlyLimitExceeded")
               ELSE [proxy_calls EXCEPT ![q].pc = "forward"]
    /\ UNCHANGED <<now, nonproxy, request_logs, usage_records>>

\* The body is read and make_upstream_request runs to its end: the upstream
\* answered one of the attempts, or the answer's body failed to arrive, or
\* every attempt failed.
Q_Forward(q) ==
    /\ proxy_calls[q].pc = "forward"
    /\ \E o \in {"bad_body", "response", "no_body", "failed"} :
         proxy_calls' =
            CASE o = "bad_body" -> QDone(q, "InvalidRequestBody")
              [] o = "response" ->
                   [proxy_calls EXCEPT ![q].pc = "log", ![q].sent_at = Some(now),
                                       ![q].upstream_ok = TRUE]
              [] o = "no_body" ->
                   [proxy_calls EXCEPT ![q].pc = "done", ![q].sent_at = Some(now),
                                       ![q].result = "UpstreamError"]
              [] o = "failed" ->
                   [proxy_calls EXCEPT ![q].pc = "log", ![q].sent_at = Some(now)]
    /\ UNCHANGED <<now, nonproxy, request_logs, usage_records>>

\* `self.log_request(..).await?` of either branch of the match.
Q_LogRequest(q) ==
    /\ proxy_calls[q].pc = "log"
    /\ \E ok \in BOOLEAN :
         IF ok
         THEN /\ request_logs' = Append(request_logs,
                    [user_id |-> proxy_calls[q].user,
                     endpoint_id |-> proxy_calls[q].endpoint,
                     request_id |-> q, created_at |-> now])
              /\ proxy_calls' =
                    IF proxy_calls[q].upstream_ok
                    THEN [proxy_calls EXCEPT ![q].pc = "usage"]
                    ELSE QDone(q, "UpstreamError")
         ELSE /\ proxy_calls' = QDone(q, "DatabaseError")
              /\ UNCHANGED request_logs
    /\ UNCHANGED <<now, nonproxy, usage_records>>

\* `self.update_usage_metrics(user.id, endpoint.id, 1, cost).await?`.
Q_UpdateUsage(q) ==
    /\ proxy_calls[q].pc = "usage"
    /\ \E ok \in BOOLEAN :
         IF ok
         THEN /\ usage_records' = InsertUsageRecord(usage_records,
                    [user_id |-> proxy_calls[q].user,
                     endpoint_id |-> proxy_calls[q].endpoint,
                     request_count |-> 1, timestamp |-> now])
              /\ proxy_calls' = QDone(q, "Response")
         ELSE /\ proxy_calls' = QDone(q, "DatabaseError")
              /\ UNCHANGED usage_records
    /\ UNCHANGED <<now, nonproxy, request_logs>>

ConcurrentNext ==
    \/ Tick
    \/ \E q \in ProxyCalls, u \in Users, e \in Endpoints, method \in Methods :
          Q_Start(q, u, e, method)
    \/ \E q \in ProxyCalls : Q_RateLimits(q)
    \/ \E q \in ProxyCalls : Q_MonthlyLimits(q)
    \/ \E q \in ProxyCalls : Q_Forward(q)
    \/ \E q \in ProxyCalls : Q_LogRequest(q)
    \/ \E q \in ProxyCalls : Q_UpdateUsage(q)

SpecConcurrent == ConcurrentInit /\ [][ConcurrentNext]_vars

\* =========================================================================
\* Usage recording: ProxyService::update_usage_metrics and
\* Database::create_usage_record, called by any number of requests at once.
\* =========================================================================
\* Total number of recordings started in one behaviour.
MaxRecordings == 2

\* The (request_count, cost) pairs a recording can carry.
Deltas == {<<1, 2>>, <<2, 1>>}

\* `Utc::now().format("%Y-%m")`: the clock's second 0 is the last second of a
\* month, every later second lies in the next month.
BillingPeriod(t) == IF t < 1 THEN 0 ELSE 1

RecordingsStarted ==
    Len(recorded) + Cardinality({r \in Recorders : recorder[r].pc \in {"period", "insert"}})

UsageInit ==
    /\ now = 0
    /\ users = [u \in Users |-> NewUser]
    /\ endpoints = [e \in Endpoints |-> NewEndpoint]
    /\ rate_limits = << >>
    /\ rl_lock = None
    /\ task = [t \in Tasks |-> IdleTask]
    /\ admitted = [k \in Keys |-> << >>]
    /\ checks = 0
    /\ call = IdleCall
    /\ ncalls = 0
    /\ request_logs = << >>
    /\ usage_records = << >>
    /\ spawned = << >>
    /\ XIdle

\* update_usage_metrics(user_id, endpoint_id, request_count, cost) is called.
U_Start(r, u, e, d) ==
    /\ recorder[r].pc \in {"idle", "done"}
    /\ RecordingsStarted < MaxRecordings
    /\ recorder' = [recorder EXCEPT ![r] =
            [IdleRecorder EXCEPT !.pc = "period", !.user_id = u, !.endpoint_id = e,
                                 !.request_count = d[1], !.cost = d[2]]]
    /\ UNCHANGED <<lvars, pvars, recorded, bvars, evars, avars, cvars, hvars, qvars, fvars>>

\* `let billing_period = Utc::now().format("%Y-%m").to_string();`
U_Period(r) ==
    /\ recorder[r].pc = "period"
    /\ recorder' = [recorder EXCEPT ![r].pc = "insert",
                                    ![r].billing_period = BillingPeriod(now)]
    /\ UNCHANGED <<lvars, pvars, recorded, bvars, evars, avars, cvars, hvars, qvars, fvars>>

\* create_usage_record(..).await.map_err(|_| DatabaseError)?: the INSERT adds
\* the row or fails and adds nothing.
U_Insert(r) ==
    /\ recorder[r].pc = "insert"
    /\ \E ok \in BOOLEAN :
         LET d == [user_id |-> recorder[r].user_id,
                   endpoint_id |-> recorder[r].endpoint_id,
                   request_count |-> recorder[r].request_count,
                   total_cost |-> recorder[r].cost,
                   billing_period |-> recorder[r].billing_period]
             row == [user_id |-> d.user_id, endpoint_id |-> d.endpoint_id,
                     request_count |-> d.request_count, total_cost |-> d.total_cost,
                     billing_period |-> d.billing_period, status |-> "Pending",
                     timestamp |-> now]
         IN  /\ usage_records' = IF ok THEN InsertUsageRecord(usage_records, row)
                                 ELSE usage_records
             /\ recorded' = Append(recorded, [delta |-> d, ok |-> ok])
             /\ recorder' = [recorder EXCEPT ![r].pc = "done",
                                 ![r].result = IF ok THEN "Ok" ELSE "DatabaseError"]
    /\ UNCHANGED <<lvars, call, ncalls, request_logs, spawned, bvars, evars, avars, cvars, hvars, qvars, fvars>>

UsageNext ==
    \/ Tick
    \/ \E r \in Recorders, u \in Users, e \in Endpoints, d \in Deltas :
          U_Start(r, u, e, d)
    \/ \E r \in Recorders : U_Period(r)
    \/ \E r \in Recorders : U_Insert(r)

SpecUsage == UsageInit /\ [][UsageNext]_vars

\* =========================================================================
\* Settlement: MeteringService::process_billing (POST /admin/billing) and the
\* storage calls on usage_records' status (database.rs).
\* =========================================================================

MaxCycles == 2
MaxUpdates == 2

\* enum UsageStatus is Pending, Billed, Failed, Refunded; these are the two
\* a settlement writes.
SettlementOutcomes == {"Billed", "Failed"}

TxHashes == {None, Some("tx1"), Some("tx2")}

\* A usage_records row as create_usage_record stores it: status Pending and
\* no transaction hash.  A row's id is its position in the table.
PendingRow(u) ==
    [user_id          |-> u,
     endpoint_id      |-> "e1",
     request_count    |-> 1,
     status           |-> "Pending",
     transaction_hash |-> None]

\* `SELECT DISTINCT u.* FROM users u INNER JOIN usage_records ur
\*  ON u.id = ur.user_id WHERE ur.status = 'pending'`
get_users_with_outstanding_usage(table) ==
    {u \in Users : \E i \in DOMAIN table :
        table[i].user_id = u /\ table[i].status = "Pending"}

\* `UPDATE usage_records SET status = $2, transaction_hash = $3, ..
\*  WHERE id = $1`: the row's current status is not part of the condition.
update_usage_status(table, record_id, status, transaction_hash) ==
    IF record_id \in DOMAIN table
    THEN [table EXCEPT ![record_id].status = status,
                       ![record_id].transaction_hash = transaction_hash]
    ELSE table

SettlementInit ==
    /\ now = 0
    /\ users = [u \in Users |-> NewUser]
    /\ endpoints = [e \in Endpoints |-> NewEndpoint]
    /\ rate_limits = [k \in Keys |-> None]
    /\ rl_lock = "free"
    /\ task = [t \in Tasks |-> IdleTask]
    /\ admitted = << >>
    /\ checks = 0
    /\ call = IdleCall
    /\ ncalls = 0
    /\ request_logs = << >>
    /\ \E u1 \in Users, u2 \in Users, n \in 1..2 :
          usage_records = SubSeq(<<PendingRow(u1), PendingRow(u2)>>, 1, n)
    /\ spawned = << >>
    /\ XIdle

svars == <<lvars, call, ncalls, request_logs, spawned, recorder, recorded, evars, avars, cvars, hvars, qvars, fvars>>

\* An admin request reaches `state.metering.process_billing(..)`.
B_Start(c) ==
    /\ cycle[c].pc \in {"idle", "done"}
    /\ ncycles < MaxCycles
    /\ cycle' = [cycle EXCEPT ![c] = [IdleCycle EXCEPT !.pc = "fetch"]]
    /\ ncycles' = ncycles + 1
    /\ UNCHANGED <<svars, usage_records, nupdates>>

\* `let users_to_bill = db.get_users_with_outstanding_usage().await?;`
\* picked is history: the Pending rows of the users fetched.
B_Fetch(c) ==
    /\ cycle[c].pc = "fetch"
    /\ \E ok \in BOOLEAN :
          cycle' = [cycle EXCEPT ![c] =
              IF ok
              THEN LET us == get_users_with_outstanding_usage(usage_records) IN
                   [@ EXCEPT !.pc = "loop",
                             !.users_to_bill = us,
                             !.picked = {i \in DOMAIN usage_records :
                                 /\ usage_records[i].user_id \in us
                                 /\ usage_records[i].status = "Pending"}]
              ELSE [@ EXCEPT !.pc = "done", !.result = "Err"]]
    /\ UNCHANGED <<svars, usage_records, ncycles, nupdates>>

\* `for user in users_to_bill { info!(..); /* ... billing logic here ... */ }`
B_User(c) ==
    /\ cycle[c].pc = "loop"
    /\ \E u \in cycle[c].users_to_bill :
          cycle' = [cycle EXCEPT ![c].users_to_bill = @ \ {u}]
    /\ UNCHANGED <<svars, usage_records, ncycles, nupdates>>

\* `info!("Billing cycle completed."); Ok(())`
B_Done(c) ==
    /\ cycle[c].pc = "loop"
    /\ cycle[c].users_to_bill = {}
    /\ cycle' = [cycle EXCEPT ![c].pc = "done", ![c].result = "Ok"]
    /\ UNCHANGED <<svars, usage_records, ncycles, nupdates>>

\* A call of Database::update_usage_status, the only writer of a row's status
\* and transaction hash, marking the outcome of a settlement; the statement
\* may fail, leaving the table as it was.
S_UpdateUsageStatus(record_id, status, transaction_hash) ==
    /\ nupdates < MaxUpdates
    /\ record_id \in DOMAIN usage_records
    /\ nupdates' = nupdates + 1
    /\ \E ok \in BOOLEAN :
          usage_records' =
              IF ok
              THEN update_usage_status(usage_records, record_id, status,
                                       transaction_hash)
              ELSE usage_records
    /\ UNCHANGED <<svars, cycle, ncycles>>

SettlementNext ==
    \/ \E c \in Cycles : B_Start(c)
    \/ \E c \in Cycles : B_Fetch(c)
    \/ \E c \in Cycles : B_User(c)
    \/ \E c \in Cycles : B_Done(c)
    \/ \E i \in 1..2, st \in SettlementOutcomes, tx \in TxHashes :
          S_UpdateUsageStatus(i, st, tx)

SpecSettlement == SettlementInit /\ [][SettlementNext]_vars

\* =========================================================================
\* Transaction executor: BlockchainService::execute_transaction and
\* wait_for_confirmation (blockchain.rs).  The chain advances on its own.
\* =========================================================================

MaxAttempts == 2
MaxConfirmations == 2
MaxHeight == 3
MaxPolls == 3

retry_delay_ms == 1000

\* `receipt.status == Some(0)`; the mutant never sees a failure.
ReceiptFailedNever(receipt) == FALSE

ReceiptFailed(receipt) == receipt.status = Some(0)

\* U64::saturating_sub; the mutant counts the inclusion block as well.
saturating_sub_inclusive(a, b) == IF a >= b THEN a - b + 1 ELSE 0

saturating_sub(a, b) == IF a >= b THEN a - b ELSE 0

\* `confirmations >= required_confirmations`; the mutant ignores the depth.
DeepEnoughAlways(confirmations, required) == TRUE

DeepEnough(confirmations, required) == confirmations >= required

\* A receipt of the provider: status is None, Some(0) or Some(1); the block
\* number is None while the transaction is not in a block.
Receipts(h) ==
    [status : {None, Some(0), Some(1)}, block_number : {None, Some(h)}]

ExecutorInit ==
    /\ now = 0
    /\ users = [u \in Users |-> NewUser]
    /\ endpoints = [e \in Endpoints |-> NewEndpoint]
    /\ rate_limits = [k \in Keys |-> None]
    /\ rl_lock = "free"
    /\ task = [t \in Tasks |-> IdleTask]
    /\ admitted = << >>
    /\ checks = 0
    /\ call = IdleCall
    /\ ncalls = 0
    /\ request_logs = << >>
    /\ usage_records = << >>
    /\ spawned = << >>
    /\ recorder = [r \in Recorders |-> IdleRecorder]
    /\ recorded = << >>
    /\ cycle = [c \in Cycles |-> IdleCycle]
    /\ ncycles = 0
    /\ nupdates = 0
    /\ \E n \in 0..MaxAttempts, k \in 0..MaxConfirmations :
          exec = [IdleExec EXCEPT !.pc = "build",
                                  !.retry_attempts = n,
                                  !.required_confirmations = k]
    /\ chain = EmptyChain
    /\ auth = IdleAuth
    /\ calc = IdleCalc
    /\ hdrs = IdleHdrs
    /\ proxy_calls = [q \in ProxyCalls |-> IdleProxyCall]
    /\ fwd = IdleFwd

nonexec == <<lvars, pvars, recorder, recorded, bvars, avars, cvars, hvars, qvars, fvars>>

\* The end of one attempt of the loop with an error e: `if attempt ==
\* self.config.retry_attempts { return Err(e) }`, else on to the sleep.
AttemptFailed(x) ==
    IF x.attempt = x.retry_attempts
    THEN [x EXCEPT !.pc = "done", !.fails = @ + 1, !.rpc_err = TRUE,
                   !.result = [NoResult EXCEPT !.kind = "Err"]]
    ELSE [x EXCEPT !.pc = "retry_sleep", !.fails = @ + 1, !.rpc_err = TRUE]

\* `call.gas(..).gas_price(parse_ether(..)?)`, then the head of
\* `for attempt in 1..=retry_attempts`; an empty range falls through to
\* `unreachable!()`.
X_Build ==
    /\ exec.pc = "build"
    /\ \E ok \in BOOLEAN :
          exec' =
              IF ~ok
              THEN [exec EXCEPT !.pc = "done",
                                !.result = [NoResult EXCEPT !.kind = "Err"]]
              ELSE IF exec.retry_attempts >= 1
              THEN [exec EXCEPT !.pc = "send", !.attempt = 1]
              ELSE [exec EXCEPT !.pc = "done",
                                !.result = [NoResult EXCEPT !.kind = "Panic"]]
    /\ UNCHANGED <<nonexec, chain>>

\* `match call.send().await`: accepted, and wait_for_confirmation starts with
\* confirmations = 0 for the new hash, or refused.
X_Send ==
    /\ exec.pc = "send"
    /\ \E ok \in BOOLEAN :
          IF ok
          THEN /\ exec' = [exec EXCEPT !.pc = "receipt", !.sent = @ + 1,
                                       !.confirmations = 0, !.seen = None,
                                       !.rpc_err = FALSE]
               /\ chain' = [chain EXCEPT !.receipt = None]
          ELSE /\ exec' = AttemptFailed([exec EXCEPT !.sent = @ + 1])
               /\ chain' = chain
    /\ UNCHANGED nonexec

\* `sleep(Duration::from_millis(self.config.retry_delay_ms)).await`, then the
\* next attempt.
X_RetrySleep ==
    /\ exec.pc = "retry_sleep"
    /\ exec' = [exec EXCEPT !.pc = "send", !.attempt = @ + 1,
                            !.slept = Append(@, retry_delay_ms)]
    /\ UNCHANGED <<nonexec, chain>>

\* `match self.provider.get_transaction_receipt(tx_hash).await?` and the code
\* up to the next await.
X_Receipt ==
    /\ exec.pc = "receipt"
    /\ exec.receipt_polls < MaxPolls
    /\ \E ok \in BOOLEAN :
          LET x == [exec EXCEPT !.receipt_polls = @ + 1] IN
          exec' =
              IF ~ok THEN AttemptFailed(x)
              ELSE LET y == [x EXCEPT !.seen = chain.receipt,
                                      !.rpc_err = FALSE] IN
                   IF chain.receipt = None
                   THEN [y EXCEPT !.pc = "poll_sleep"]
                   ELSE LET receipt == chain.receipt[1] IN
                        IF ReceiptFailed(receipt)
                        THEN [y EXCEPT !.pc = "done",
                                 !.result = [kind |-> "Ok",
                                     status |-> "Failed",
                                     confirmations |-> y.confirmations,
                                     block_number |-> receipt.block_number]]
                        ELSE IF IsSome(receipt.block_number)
                        THEN [y EXCEPT !.pc = "height",
                                 !.block_number = receipt.block_number[1]]
                        ELSE [y EXCEPT !.pc = "poll_sleep"]
    /\ UNCHANGED <<nonexec, chain>>

\* `let latest_block = self.provider.get_block_number().await?;` and the
\* depth test.
X_Height ==
    /\ exec.pc = "height"
    /\ \E ok \in BOOLEAN :
          LET x == [exec EXCEPT !.height_polls = @ + 1] IN
          exec' =
              IF ~ok THEN AttemptFailed(x)
              ELSE LET confirmations ==
                           saturating_sub(chain.height, x.block_number)
                       y == [x EXCEPT !.latest = chain.height,
                                      !.confirmations = confirmations,
                                      !.rpc_err = FALSE] IN
                   IF DeepEnough(confirmations, x.required_confirmations)
                   THEN [y EXCEPT !.pc = "done",
                            !.result = [kind |-> "Ok",
                                status |-> "Confirmed",
                                confirmations |-> confirmations,
                                block_number |-> Some(x.block_number)]]
                   ELSE [y EXCEPT !.pc = "poll_sleep"]
    /\ UNCHANGED <<nonexec, chain>>

\* `sleep(Duration::from_secs(2)).await` at the foot of the polling loop.
X_PollSleep ==
    /\ exec.pc = "poll_sleep"
    /\ exec' = [exec EXCEPT !.pc = "receipt"]
    /\ UNCHANGED <<nonexec, chain>>

\* The chain grows by a block.
Ch_Mine ==
    /\ chain.height < MaxHeight
    /\ chain' = [chain EXCEPT !.height = @ + 1]
    /\ UNCHANGED <<nonexec, exec>>

\* The submitted transaction gets a receipt, or its pending receipt gets a
\* block: the block is the one at the top of the chain.
Ch_Receipt(receipt) ==
    /\ exec.pc \in {"receipt", "poll_sleep"}
    /\ \/ chain.receipt = None
       \/ /\ chain.receipt # None
          /\ chain.receipt[1].block_number = None
          /\ receipt.status = chain.receipt[1].status
          /\ receipt.block_number # None
    /\ chain' = [chain EXCEPT !.receipt = Some(receipt)]
    /\ UNCHANGED <<nonexec, exec>>

ExecutorNext ==
    \/ X_Build
    \/ X_Send
    \/ X_RetrySleep
    \/ X_Receipt
    \/ X_Height
    \/ X_PollSleep
    \/ Ch_Mine
    \/ \E receipt \in Receipts(chain.height) : Ch_Receipt(receipt)

SpecExecutor == ExecutorInit /\ [][ExecutorNext]_vars

\* =========================================================================
\* Credential resolution on the proxy route: the auth_middleware layer
\* (middleware_auth.rs, main.rs 198-201), then proxy_request (main.rs 387-409)
\* and GatewayService::process_request's extract_api_key and
\* authenticate_api_key (gateway.rs 73-78, 178-197).
\* =========================================================================

\* What a credential header can hold: the API key of a user, a signed and
\* unexpired JWT whose subject is a user, or text that is neither.
Tokens ==
    [kind : {"api_key", "jwt"}, user : Users] \cup [kind : {"junk"}, user : {"none"}]

\* Values of the Authorization header: a scheme and a token, or bytes for
\* which HeaderValue::to_str fails.
AuthorizationValues ==
    [scheme : {"Bearer"}, token : Tokens]
    \cup [scheme : {"Basic", "binary"}, token : [kind : {"junk"}, user : {"none"}]]

\* Values of the X-API-Key header; scheme "binary" as above.
XApiKeyValues ==
    [scheme : {"text"}, token : Tokens]
    \cup [scheme : {"binary"}, token : [kind : {"junk"}, user : {"none"}]]

\* The text of a token as a value of the api_key column: only a user's key
\* equals one.
AsApiKey(token) == IF token.kind = "api_key" THEN token.user ELSE "bad"

\* Database::get_user_by_id: `FROM users WHERE id = $1`.
get_user_by_id(user_id) ==
    IF user_id \in DOMAIN users THEN Some(user_id) ELSE None

\* AuthService::extract_auth_from_headers: x-api-key first, then a Bearer
\* Authorization header taken as a JWT; a header that is not text is skipped.
extract_auth_from_headers(a) ==
    IF a.x_api_key # None /\ a.x_api_key[1].scheme # "binary"
    THEN Some([method |-> "ApiKey", token |-> a.x_api_key[1].token])
    ELSE IF a.authorization # None /\ a.authorization[1].scheme = "Bearer"
    THEN Some([method |-> "Jwt", token |-> a.authorization[1].token])
    ELSE None

\* AuthService::authenticate_api_key, db standing for the query's success:
\* the user's id, or the AuthError.
authenticate_api_key(token, db) ==
    IF db = "error" THEN [ok |-> FALSE, user |-> "none", err |-> "DatabaseError"]
    ELSE LET row == get_user_by_api_key(AsApiKey(token)) IN
         IF row = None THEN [ok |-> FALSE, user |-> "none", err |-> "InvalidApiKey"]
         ELSE IF ~users[Unwrap(row)].is_active
         THEN [ok |-> FALSE, user |-> "none", err |-> "UserInactive"]
         ELSE [ok |-> TRUE, user |-> Unwrap(row), err |-> "none"]

\* AuthService::authenticate_jwt: validate_token, then get_user_by_id.
authenticate_jwt(token, db) ==
    IF token.kind # "jwt" THEN [ok |-> FALSE, user |-> "none", err |-> "InvalidToken"]
    ELSE IF db = "error" THEN [ok |-> FALSE, user |-> "none", err |-> "DatabaseError"]
    ELSE LET row == get_user_by_id(token.user) IN
         IF row = None THEN [ok |-> FALSE, user |-> "none", err |-> "UserNotFound"]
         ELSE IF ~users[Unwrap(row)].is_active
         THEN [ok |-> FALSE, user |-> "none", err |-> "UserInactive"]
         ELSE [ok |-> TRUE, user |-> Unwrap(row), err |-> "none"]

\* GatewayService::extract_api_key: a Bearer Authorization header first, its
\* token taken as the API key, then x-api-key; a header that is not text is
\* an error.
extract_api_key(a) ==
    IF a.authorization # None /\ a.authorization[1].scheme = "binary"
    THEN [ok |-> FALSE, token |-> [kind |-> "junk", user |-> "none"]]
    ELSE IF a.authorization # None /\ a.authorization[1].scheme = "Bearer"
    THEN [ok |-> TRUE, token |-> a.authorization[1].token]
    ELSE IF a.x_api_key # None
    THEN IF a.x_api_key[1].scheme = "binary"
         THEN [ok |-> FALSE, token |-> [kind |-> "junk", user |-> "none"]]
         ELSE [ok |-> TRUE, token |-> a.x_api_key[1].token]
    ELSE [ok |-> FALSE, token |-> [kind |-> "junk", user |-> "none"]]

AuthInit ==
    /\ now = 0
    /\ \E active \in BOOLEAN :
          users = [u \in Users |->
                     IF u = "u1" THEN NewUser ELSE [NewUser EXCEPT !.is_active = active]]
    /\ endpoints = [e \in Endpoints |-> NewEndpoint]
    /\ rate_limits = << >>
    /\ rl_lock = None
    /\ task = [t \in Tasks |-> IdleTask]
    /\ admitted = [k \in Keys |-> << >>]
    /\ checks = 0
    /\ call = IdleCall
    /\ ncalls = 0
    /\ request_logs = << >>
    /\ usage_records = << >>
    /\ spawned = << >>
    /\ recorder = [r \in Recorders |-> IdleRecorder]
    /\ recorded = << >>
    /\ cycle = [c \in Cycles |-> IdleCycle]
    /\ ncycles = 0
    /\ nupdates = 0
    /\ EIdle
    /\ calc = IdleCalc
    /\ hdrs = IdleHdrs
    /\ proxy_calls = [q \in ProxyCalls |-> IdleProxyCall]
    /\ fwd = IdleFwd
    /\ \E authorization \in {None} \cup {Some(v) : v \in AuthorizationValues},
          x_api_key \in {None} \cup {Some(v) : v \in XApiKeyValues} :
          auth = [IdleAuth EXCEPT !.pc = "middleware",
                                  !.authorization = authorization,
                                  !.x_api_key = x_api_key]

nonauth == <<lvars, pvars, recorder, recorded, bvars, evars, cvars, hvars, qvars, fvars>>

\* auth_middleware: no method or a failed authentication is
\* Err(StatusCode::UNAUTHORIZED); otherwise the user goes into the request's
\* extensions and next.run(request) follows.
A_Middleware ==
    /\ auth.pc = "middleware"
    /\ \E db \in {"ok", "error"} :
          LET m == extract_auth_from_headers(auth)
              r == IF m = None THEN [ok |-> FALSE, user |-> "none", err |-> "none"]
                   ELSE IF m[1].method = "ApiKey"
                   THEN authenticate_api_key(m[1].token, db)
                   ELSE authenticate_jwt(m[1].token, db)
          IN  auth' =
                IF r.ok THEN [auth EXCEPT !.pc = "extract", !.authenticated = r.user]
                ELSE [auth EXCEPT !.pc = "done", !.status = 401,
                                  !.db_error = (r.err = "DatabaseError")]
    /\ UNCHANGED nonauth

\* process_request: `self.extract_api_key(&headers)?`, then
\* authenticate_api_key with every error mapped to AppError::Auth; on
\* success the handler goes on to get_endpoint_by_name.
A_GatewayAuth ==
    /\ auth.pc = "extract"
    /\ \E db \in {"ok", "error"} :
          LET k == extract_api_key(auth)
              r == IF k.ok THEN authenticate_api_key(k.token, db)
                   ELSE [ok |-> FALSE, user |-> "none", err |-> "none"]
          IN  auth' =
                IF r.ok THEN [auth EXCEPT !.pc = "endpoint", !.user = r.user]
                ELSE [auth EXCEPT !.pc = "done", !.status = AppErrorStatus("Auth"),
                                  !.db_error = (r.err = "DatabaseError")]
    /\ UNCHANGED nonauth

AuthNext ==
    \/ A_Middleware
    \/ A_GatewayAuth

SpecAuth == AuthInit /\ [][AuthNext]_vars

\* =========================================================================
\* The helper functions of auth.rs and MeteringService::get_rate_limit,
\* applied to chosen arguments.
\* =========================================================================

\* enum UserTier
UserTiers == {"Free", "Pro", "Enterprise", "Admin"}

\* Values of users.rate_limit_override and api_endpoints.rate_limit (i32).
LimitValues == {None, Some(0 - 1), Some(50), Some(500), Some(20000)}

\* check_permission with the required tier itself excluded.
check_permission_strict(user, required_tier) ==
    CASE user.tier = "Admin" -> required_tier \in {"Free", "Pro", "Enterprise"}
      [] user.tier = "Enterprise" -> required_tier \in {"Free", "Pro"}
      [] user.tier = "Pro" -> required_tier \in {"Free"}
      [] user.tier = "Free" -> FALSE

\* auth.rs check_permission: `match user.tier`.
check_permission(user, required_tier) ==
    CASE user.tier = "Admin" -> TRUE
      [] user.tier = "Enterprise" -> required_tier \in {"Free", "Pro", "Enterprise"}
      [] user.tier = "Pro" -> required_tier \in {"Free", "Pro"}
      [] user.tier = "Free" -> required_tier \in {"Free"}

HelpersInit ==
    /\ now = 0
    /\ users = [u \in Users |-> NewUser]
    /\ endpoints = [e \in Endpoints |-> NewEndpoint]
    /\ rate_limits = << >>
    /\ rl_lock = None
    /\ task = [t \in Tasks |-> IdleTask]
    /\ admitted = [k \in Keys |-> << >>]
    /\ checks = 0
    /\ call = IdleCall
    /\ ncalls = 0
    /\ request_logs = << >>
    /\ usage_records = << >>
    /\ spawned = << >>
    /\ recorder = [r \in Recorders |-> IdleRecorder]
    /\ recorded = << >>
    /\ cycle = [c \in Cycles |-> IdleCycle]
    /\ ncycles = 0
    /\ nupdates = 0
    /\ EIdle
    /\ auth = IdleAuth
    /\ hdrs = IdleHdrs
    /\ proxy_calls = [q \in ProxyCalls |-> IdleProxyCall]
    /\ fwd = IdleFwd
    /\ \E tier \in UserTiers, override \in LimitValues, limit \in LimitValues :
          calc = [IdleCalc EXCEPT
                     !.user = [NewUser EXCEPT !.tier = tier,
                                              !.rate_limit_override = override],
                     !.endpoint_limit = limit]

noncalc == <<lvars, pvars, recorder, recorded, bvars, evars, avars, hvars, qvars, fvars>>

\* `self.get_rate_limit(&user, &endpoint)`, the limit of the pair returned.
H_GetRateLimit ==
    /\ calc.metering_limit = None
    /\ calc' = [calc EXCEPT !.metering_limit =
                   Some(get_rate_limit(calc.user,
                        [NewEndpoint EXCEPT !.rate_limit = calc.endpoint_limit])[1])]
    /\ UNCHANGED noncalc

\* `get_rate_limit_for_user(user, endpoint.rate_limit)`
H_GetRateLimitForUser ==
    /\ calc.auth_limit = None
    /\ calc' = [calc EXCEPT !.auth_limit =
                   Some(get_rate_limit_for_user(calc.user, calc.endpoint_limit))]
    /\ UNCHANGED noncalc

\* `check_permission(&user, required_tier)`
H_CheckPermission(required_tier) ==
    /\ calc.permitted = None
    /\ calc' = [calc EXCEPT !.required_tier = required_tier,
                            !.permitted = Some(check_permission(calc.user, required_tier))]
    /\ UNCHANGED noncalc

HelpersNext ==
    \/ H_GetRateLimit
    \/ H_GetRateLimitForUser
    \/ \E required_tier \in UserTiers : H_CheckPermission(required_tier)

SpecHelpers == HelpersInit /\ [][HelpersNext]_vars

\* =========================================================================
\* Headers sent upstream: ProxyService::prepare_upstream_headers and
\* make_upstream_request (proxy.rs), GatewayService::forward_request
\* (gateway.rs).  A HeaderMap is a sequence of name/value entries, a name
\* possibly more than once.
\* =========================================================================

MaxHeaders == 2

\* The array hop_by_hop_headers of prepare_upstream_headers.
hop_by_hop_headers ==
    {"connection", "keep-alive", "proxy-authenticate", "proxy-authorization",
     "te", "trailers", "transfer-encoding", "upgrade", "host"}

\* The names forward_request removes.
gateway_removed_headers ==
    {"host", "connection", "proxy-authorization", "proxy-authenticate", "te",
     "trailers", "transfer-encoding", "upgrade"}

HeaderNames == hop_by_hop_headers \cup {"content-type", "authorization"}

\* Header values: two texts, and bytes for which HeaderValue::to_str fails.
HeaderValues == {"v1", "v2", "binary"}

HeaderEntries == [name : HeaderNames, value : HeaderValues]

Provenance == [name |-> "x-forwarded-by", value |-> "august-credits"]

\* HeaderMap::remove: every value of the name goes.
HeaderMapRemove(map, name) == SelectSeq(map, LAMBDA e : e.name # name)

\* HeaderMap::insert: the entry replaces every value of its name.
HeaderMapInsert(map, entry) == Append(HeaderMapRemove(map, entry.name), entry)

RECURSIVE RemoveAll(_, _)
RemoveAll(map, names) ==
    IF names = {} THEN map
    ELSE LET name == CHOOSE x \in names : TRUE IN
         RemoveAll(HeaderMapRemove(map, name), names \ {name})

\* The loop of prepare_upstream_headers over headers.iter(), entries i..Len:
\* every entry whose name is not hop-by-hop is inserted.
RECURSIVE CopyFrom(_, _, _)
CopyFrom(headers, i, upstream_headers) ==
    IF i > Len(headers) THEN upstream_headers
    ELSE CopyFrom(headers, i + 1,
                  IF headers[i].name \in hop_by_hop_headers
                  THEN upstream_headers
                  ELSE HeaderMapInsert(upstream_headers, headers[i]))

prepare_upstream_headers(headers) ==
    HeaderMapInsert(CopyFrom(headers, 1, << >>), Provenance)

\* `if let Ok(value_str) = value.to_str() { request_builder.header(..) }`:
\* the entries that reach the request, as a set.
SentEntries(map) == {map[i] : i \in {j \in DOMAIN map : map[j].value # "binary"}}

HeadersInit ==
    /\ now = 0
    /\ users = [u \in Users |-> NewUser]
    /\ endpoints = [e \in Endpoints |-> NewEndpoint]
    /\ rate_limits = << >>
    /\ rl_lock = None
    /\ task = [t \in Tasks |-> IdleTask]
    /\ admitted = [k \in Keys |-> << >>]
    /\ checks = 0
    /\ call = IdleCall
    /\ ncalls = 0
    /\ request_logs = << >>
    /\ usage_records = << >>
    /\ spawned = << >>
    /\ recorder = [r \in Recorders |-> IdleRecorder]
    /\ recorded = << >>
    /\ cycle = [c \in Cycles |-> IdleCycle]
    /\ ncycles = 0
    /\ nupdates = 0
    /\ EIdle
    /\ auth = IdleAuth
    /\ calc = IdleCalc
    /\ proxy_calls = [q \in ProxyCalls |-> IdleProxyCall]
    /\ fwd = IdleFwd
    /\ \E n \in 0..MaxHeaders : \E incoming \in [1..n -> HeaderEntries] :
          hdrs = [IdleHdrs EXCEPT !.incoming = incoming]

nonhdrs == <<lvars, pvars, recorder, recorded, bvars, evars, avars, cvars, qvars, fvars>>

\* forward_request: the eight removals, the insert of x-forwarded-by, and
\* the copy into the request builder.
F_Gateway ==
    /\ hdrs.gateway_sent = None
    /\ hdrs' = [hdrs EXCEPT !.gateway_sent =
                   Some(SentEntries(HeaderMapInsert(
                       RemoveAll(hdrs.incoming, gateway_removed_headers),
                       Provenance)))]
    /\ UNCHANGED nonhdrs

\* proxy_request: prepare_upstream_headers, then make_upstream_request's copy
\* into the request builder.
F_Proxy ==
    /\ hdrs.proxy_sent = None
    /\ hdrs' = [hdrs EXCEPT !.proxy_sent =
                   Some(SentEntries(prepare_upstream_headers(hdrs.incoming)))]
    /\ UNCHANGED nonhdrs

HeadersNext ==
    \/ F_Gateway
    \/ F_Proxy

SpecHeaders == HeadersInit /\ [][HeadersNext]_vars

\* ------------------------------------------------ rate limiter: claims
\* The limit and window length in force for a key (the configuration does not
\* change in SpecLimiter).
KeyLimit(k) == get_rate_limit(users[k[1]], endpoints[k[2]])[1]
KeyWindow(k) == get_rate_limit(users[k[1]], endpoints[k[2]])[2]

\* Number of checks admitted for key k whose timestamp is less than the
\* window length old at time t, counted on the history.
RecentAdmitted(k, t) ==
    Cardinality({i \in DOMAIN admitted[k] : t - admitted[k][i] < KeyWindow(k)})

\* C1: once L checks of a key have been admitted with timestamps less than W
\* seconds old, the next check that reaches the key's window is rejected with
\* the rate-limit error.
C1_RejectedWhenFull ==
    [][\A t \in Tasks :
         (/\ task[t].pc = "check"
          /\ task'[t].pc # "check"
          /\ RecentAdmitted(TaskKey(t), task[t].t_now) >= KeyLimit(TaskKey(t)))
         => task'[t].result = "RateLimit"]_vars

\* A check was rejected with L >= 1 admitted checks inside its window.
C1_Witness ==
    \E t \in Tasks :
        /\ task[t].result = "RateLimit"
        /\ KeyLimit(TaskKey(t)) >= 1
        /\ RecentAdmitted(TaskKey(t), task[t].t_now) = KeyLimit(TaskKey(t))

\* C2: under every interleaving of concurrent checks, the admitted checks of
\* a key whose timestamps lie in any W-second interval number at most L.
C2_AtMostLimitPerWindow ==
    \A k \in Keys : \A s \in 0..MaxTime :
        Cardinality({i \in DOMAIN admitted[k] :
                        /\ s <= admitted[k][i]
                        /\ admitted[k][i] < s + KeyWindow(k)}) <= KeyLimit(k)

\* Two calls race for the last free slot of one key: one has seen capacity
\* and has not yet appended, the other waits for the write guard.
C2_Witness ==
    \E a \in Tasks, b \in Tasks :
        /\ a # b
        /\ TaskKey(a) = TaskKey(b)
        /\ task[a].pc = "push"
        /\ task[b].pc = "lock"
        /\ Len(rate_limits[TaskKey(a)].requests) + 1 = KeyLimit(TaskKey(a))

\* C3: a check that finds the window full (L timestamps) is admitted exactly
\* when W seconds or more have passed since the oldest timestamp, and is
\* rejected while fewer have passed.
C3_RestoredAfterWindow ==
    \A t \in Tasks :
        (/\ task[t].result \in {"Ok", "RateLimit"}
         /\ task[t].pre # << >>
         /\ Len(task[t].pre) = KeyLimit(TaskKey(t)))
        => (task[t].result = "Ok"
              <=> task[t].t_now - task[t].pre[1] >= KeyWindow(TaskKey(t)))

\* A check found the window full, exactly W seconds after the oldest
\* timestamp, and was admitted.
C3_Witness ==
    \E t \in Tasks :
        /\ task[t].result = "Ok"
        /\ task[t].pre # << >>
        /\ Len(task[t].pre) = KeyLimit(TaskKey(t))
        /\ task[t].t_now - task[t].pre[1] = KeyWindow(TaskKey(t))

\* -------------------------------------------------- proxy route: claims
IsPrefix(s, t) == Len(s) <= Len(t) /\ \A i \in DOMAIN s : s[i] = t[i]

RECURSIVE SumSeq(_)
SumSeq(s) == IF s = << >> THEN 0 ELSE Head(s) + SumSeq(Tail(s))

\* Positions of a call that has passed admission.
PastAdmission == {"body", "send", "backoff", "return", "log", "usage", "log_failed"}

\* The caller has a monthly quota and the recorded usage of the period has
\* reached it.
QuotaReached(user_id) ==
    /\ IsSome(get_monthly_limit_for_user(users[user_id]))
    /\ MonthlyUsage(user_id) >= Unwrap(get_monthly_limit_for_user(users[user_id]))

\* C4: admission runs credential, resource, method, rate limit and monthly
\* quota in this order; a failing step ends the call at that step, and a call
\* of a caller with a monthly quota that goes on to forwarding has run all
\* five.
C4_AdmissionOrder ==
    /\ IsPrefix(call.steps, AdmissionOrder)
    /\ call.failed # "none" =>
          /\ call.pc = "done"
          /\ call.steps # << >>
          /\ call.steps[Len(call.steps)] = call.failed
    /\ ((call.pc \in PastAdmission \/ call.forwarder)
          /\ IsSome(get_monthly_limit_for_user(users[call.user]))) =>
          call.steps = AdmissionOrder

\* C5: a call rejected at an admission step has sent nothing upstream.
C5_NoUpstreamWhenRejected ==
    call.failed # "none" =>
        /\ call.sent = 0
        /\ ~call.forwarder
        /\ call.response = None

\* A call rejected for its monthly quota, after an earlier call was forwarded
\* and recorded, ends with no upstream attempt.
C5_Witness ==
    /\ call.pc = "done"
    /\ call.failed = "monthly_quota"
    /\ call.result = "MonthlyLimitExceeded"
    /\ usage_records # << >>
    /\ call.sent = 0

\* C6: a call of a caller whose recorded usage has reached the monthly quota
\* Q does not pass admission, its MonthlyLimitExceeded carries current = the
\* usage sum and limit = Q, and a caller without quota never gets that error.
C6_MonthlyQuotaEnforced ==
    /\ call.pc \in PastAdmission => ~QuotaReached(call.user)
    /\ call.result = "MonthlyLimitExceeded" =>
          /\ IsSome(users[call.user].monthly_limit)
          /\ call.limit = Unwrap(users[call.user].monthly_limit)
          /\ call.current = MonthlyUsage(call.user)
          /\ call.current >= call.limit

\* C7: a call that entered the forwarder and ended has made at least one
\* upstream attempt and ended with a response or an error value.
C7_ForwarderOutcome ==
    (call.pc = "done" /\ call.forwarder) =>
        /\ call.sent >= 1
        /\ call.result # "panic"

\* C8: once an upstream response was received no further attempt is made,
\* and the call ends with that response, not with an error.
C8_ResponseReturned ==
    /\ call.response # None => call.sent = call.resp_at
    /\ (call.pc = "done" /\ call.response # None) =>
          /\ call.result = "Response"
          /\ call.fwd_error = "none"

\* C9: the n-th delay slept is 100 * 2^(n-1) ms whatever the failure was, and
\* every attempt after the first is preceded by the delay of the attempt
\* before it.
C9_BackoffDelays ==
    /\ \A n \in DOMAIN call.delays : call.delays[n] = 100 * (2 ^ (n - 1))
    /\ Len(call.delays) <= Len(call.fails)
    /\ call.sent >= 1 => Len(call.delays) >= call.sent - 1
    /\ call.pc = "send" => Len(call.delays) = call.sent

\* Three attempts failed in different ways and a fourth follows after delays
\* of 100, 200 and 400 ms.
C9_Witness ==
    /\ call.delays = <<100, 200, 400>>
    /\ call.sent = 4
    /\ \E i, j \in DOMAIN call.fails : call.fails[i] # call.fails[j]

\* C10: a response on attempt k+1 comes after exactly k failures and a total
\* backoff of 100 * (2^k - 1) ms, and the forwarder does not give up before
\* retry_attempts attempts have failed.
C10_SuccessAfterBackoff ==
    /\ call.response # None =>
          /\ Len(call.fails) = call.resp_at - 1
          /\ SumSeq(call.delays) = 100 * (2 ^ (call.resp_at - 1) - 1)
          /\ call.fwd_error = "none"
    /\ (call.fwd_error # "none" /\ IsSome(endpoints[call.endpoint].retry_attempts)) =>
          Len(call.fails) >= Unwrap(endpoints[call.endpoint].retry_attempts)

\* retry_attempts = 3, two failures, the third attempt answers: 300 ms.
C10_Witness ==
    /\ call.pc = "done"
    /\ call.result = "Response"
    /\ endpoints[call.endpoint].retry_attempts = Some(3)
    /\ Len(call.fails) = 2
    /\ call.resp_at = 3
    /\ SumSeq(call.delays) = 300

\* Every attempt the forwarder made failed, all of them in the way `kind`.
AllAttemptsFailed(kind) ==
    /\ call.pc = "done"
    /\ call.forwarder
    /\ call.sent >= 1
    /\ call.sent = call.max_retries
    /\ Len(call.fails) = call.sent
    /\ \A i \in DOMAIN call.fails : call.fails[i] = kind

\* C11: when every allowed attempt timed out the caller gets the Timeout
\* failure with status 504, and when every attempt failed to connect the
\* caller gets the upstream-unavailable failure with status 502.
C11_TypedForwardFailure ==
    /\ AllAttemptsFailed("timeout") =>
          call.result = "Timeout" /\ HttpStatus(call) = 504
    /\ AllAttemptsFailed("connect") =>
          call.result \in {"UpstreamError", "ExternalService"} /\ HttpStatus(call) = 502

\* C12: a failed write of the request log or of the usage record of a call
\* that holds an upstream response leaves the call's response as it is and
\* does not turn the call into an error; on the gateway path the failed write
\* of the spawned job does not touch the call at all.
C12_StorageFailureSwallowed ==
    [][/\ ((\/ (call.pc = "log" /\ call'.pc # "log" /\ request_logs' = request_logs)
            \/ (call.pc = "usage" /\ call'.pc # "usage"
                  /\ usage_records' = usage_records))
           /\ call.response # None) =>
              /\ call'.response = call.response
              /\ call'.result \in {"none", "Response"}
       /\ (spawned # << >> /\ spawned' = Tail(spawned)
              /\ request_logs' = request_logs) => call' = call]_vars

\* ---------------------------------------------- usage recording: claims
UsageKeys == Users \X Endpoints \X {BillingPeriod(t) : t \in 0..(MaxTime + 1)}

HasKey(x, k) == x.user_id = k[1] /\ x.endpoint_id = k[2] /\ x.billing_period = k[3]

RECURSIVE SumCosts(_)
SumCosts(rows) ==
    IF rows = << >> THEN 0 ELSE Head(rows).total_cost + SumCosts(Tail(rows))

\* The rows stored for a key, and the deltas of the recordings of that key
\* that returned Ok.
StoredRows(k) == SelectSeq(usage_records, LAMBDA row : HasKey(row, k))
OkDeltas(k) ==
    LET hit == SelectSeq(recorded, LAMBDA h : h.ok /\ HasKey(h.delta, k))
    IN  [i \in DOMAIN hit |-> hit[i].delta]

\* C13: for every (caller, resource, billing period) the stored request
\* count and cost are the sums of the deltas of the recordings that
\* succeeded, in every interleaving.
C13_UsageAdditive ==
    \A k \in UsageKeys :
        /\ SumCounts(StoredRows(k)) = SumCounts(OkDeltas(k))
        /\ SumCosts(StoredRows(k)) = SumCosts(OkDeltas(k))
        /\ Len(StoredRows(k)) = Len(OkDeltas(k))

\* Both recorders stored a delta of one key, at different seconds, and both
\* rows are there: 1 + 2 requests at cost 2 + 1.
C13_Witness ==
    \E k \in UsageKeys :
        /\ HasKey(recorder["r1"], k) /\ recorder["r1"].result = "Ok"
        /\ HasKey(recorder["r2"], k) /\ recorder["r2"].result = "Ok"
        /\ Len(StoredRows(k)) = 2
        /\ StoredRows(k)[1].request_count = recorder["r2"].request_count
        /\ StoredRows(k)[1].timestamp < StoredRows(k)[2].timestamp
        /\ SumCounts(StoredRows(k)) = 3
        /\ SumCosts(StoredRows(k)) = 3

\* ---------------------------------------------------- settlement: claims

Running(c) == cycle[c].pc = "loop"

\* C14: a Pending record is claimed by at most one settlement cycle: no
\* record is in the hands of two running cycles at once.
C14_ClaimedByOneCycle ==
    \A c1 \in Cycles, c2 \in Cycles :
        (c1 # c2 /\ Running(c1) /\ Running(c2))
            => cycle[c1].picked \cap cycle[c2].picked = {}

\* C15: a record that is already settled (status Billed in the code) is left
\* as it is by every later step: its status and its transaction hash do not
\* change.
C15_SettledUntouched ==
    [][\A i \in DOMAIN usage_records :
          (usage_records[i].status = "Billed" /\ i \in DOMAIN usage_records')
              => usage_records'[i] = usage_records[i]]_vars

\* C16: when a settlement cycle has returned Ok, every record it picked up is
\* Billed with a transaction hash or Failed; none is left Pending.
C16_NoneLeftPending ==
    \A c \in Cycles :
        (cycle[c].pc = "done" /\ cycle[c].result = "Ok")
            => \A i \in cycle[c].picked :
                  \/ /\ usage_records[i].status = "Billed"
                     /\ IsSome(usage_records[i].transaction_hash)
                  \/ usage_records[i].status = "Failed"

\* ------------------------------------------------------ executor: claims

Waiting == exec.pc \in {"receipt", "height", "poll_sleep"}

\* The step is a receipt poll that the provider answered.
ReceiptRead ==
    /\ exec.pc = "receipt"
    /\ exec'.receipt_polls = exec.receipt_polls + 1
    /\ ~exec'.rpc_err

\* The step is a height poll that the provider answered.
HeightRead ==
    /\ exec.pc = "height"
    /\ exec'.height_polls = exec.height_polls + 1
    /\ ~exec'.rpc_err

\* C17: for every configured attempt count N, 0 included, execute_transaction
\* submits at most N times, sleeps the fixed retry delay between attempts,
\* waits for confirmation of the submission just accepted, returns an error
\* from the loop only when N attempts have failed, and always ends with a
\* result or an error.
C17_BoundedSubmissions ==
    /\ exec.sent <= exec.retry_attempts
    /\ \A i \in DOMAIN exec.slept : exec.slept[i] = retry_delay_ms
    /\ Waiting => exec.sent = exec.attempt
    /\ (exec.pc = "done" /\ exec.result.kind = "Err" /\ exec.attempt >= 1)
           => exec.fails = exec.retry_attempts
    /\ exec.pc = "done" => exec.result.kind \in {"Ok", "Err"}

\* C18: a receipt with status 0 ends the call in the step that reads it, with
\* an Ok result of status Failed: no height poll, no further receipt poll and
\* no resubmission follow.
C18_FailedAtOnce ==
    [][(/\ ReceiptRead
        /\ chain.receipt # None
        /\ chain.receipt[1].status = Some(0))
          => /\ exec'.pc = "done"
             /\ exec'.result.kind = "Ok"
             /\ exec'.result.status = "Failed"
             /\ exec'.sent = exec.sent
             /\ exec'.height_polls = exec.height_polls]_vars

\* A failed receipt in a block ended the call on the first attempt, although
\* another attempt was allowed.
C18_Witness ==
    /\ exec.pc = "done"
    /\ exec.result.kind = "Ok"
    /\ exec.result.status = "Failed"
    /\ exec.seen # None
    /\ exec.seen[1].status = Some(0)
    /\ IsSome(exec.seen[1].block_number)
    /\ exec.retry_attempts = 2
    /\ exec.sent = 1
    /\ exec.receipt_polls = 2

\* C19: a Confirmed result is returned only for a transaction whose receipt
\* has a block number and no failure status and whose depth, latest height
\* minus inclusion height, is at least required_confirmations when the call
\* returns; a height poll that finds a smaller depth goes on polling.
C19_ConfirmedOnlyWhenDeep ==
    [][/\ exec'.result.status = "Confirmed"
          => /\ exec'.seen # None
             /\ exec'.seen[1].status # Some(0)
             /\ exec'.seen[1].block_number = Some(exec'.block_number)
             /\ exec'.latest - exec'.block_number >= exec'.required_confirmations
             /\ chain'.height - exec'.block_number >= exec'.required_confirmations
       /\ (HeightRead /\ chain.height - exec.block_number < exec.required_confirmations)
          => exec'.pc = "poll_sleep"]_vars

\* Confirmed after a poll that found the transaction too shallow.
C19_Witness ==
    /\ exec.pc = "done"
    /\ exec.result.status = "Confirmed"
    /\ exec.required_confirmations = 2
    /\ exec.height_polls = 2
    /\ exec.latest - exec.block_number = 2

\* C20 as stated: the confirmation count of a Confirmed result equals
\* required_confirmations.
C20_ExactlyRequired ==
    exec.result.status = "Confirmed"
        => exec.result.confirmations = exec.required_confirmations

\* C20 as the code has it: polling ends at the first answered height poll
\* that finds latest height minus inclusion height at least
\* required_confirmations, not before, and the count of the Confirmed result
\* is the depth that poll found, which is at least required_confirmations.
C20_FirstDeepPoll ==
    [][HeightRead
          => LET depth == chain.height - exec.block_number IN
             /\ exec'.pc = "done" <=> depth >= exec.required_confirmations
             /\ exec'.pc = "done"
                   => /\ exec'.result.status = "Confirmed"
                      /\ exec'.result.confirmations = depth
                      /\ exec'.result.confirmations >= exec.required_confirmations]_vars

\* The chain grew by two blocks between two height polls: the first found
\* depth 0, the second depth 2 with one confirmation required.
C20_Witness ==
    /\ exec.pc = "done"
    /\ exec.result.status = "Confirmed"
    /\ exec.height_polls = 2
    /\ exec.required_confirmations = 1
    /\ exec.result.confirmations = 2

\* ------------------------------------------- admission rejections: claims

\* Results that stand for a storage failure, not for a rejection.
DbErrors == {"Database", "DatabaseError", "AuthDatabaseError"}

Rejected(c, step) ==
    c.pc = "done" /\ c.failed = step /\ c.result \notin DbErrors

\* C21: every admission rejection reaches the caller with the status of its
\* kind on both paths: missing or unknown credential 401, inactive caller
\* 403, unknown resource 404, inactive resource 403, method not allowed 405,
\* rate limit and monthly quota 429.
C21_RejectionStatus ==
    /\ (Rejected(call, "credential") /\ call.cred \notin DOMAIN users)
          => HttpStatus(call) = 401
    /\ (/\ Rejected(call, "credential")
        /\ call.path = "proxy"
        /\ call.cred \in DOMAIN users
        /\ ~users[call.cred].is_active)
          => HttpStatus(call) = 403
    /\ (Rejected(call, "resource") /\ call.endpoint_name \notin DOMAIN endpoints)
          => HttpStatus(call) = 404
    /\ (/\ Rejected(call, "resource")
        /\ call.endpoint_name \in DOMAIN endpoints
        /\ ~endpoints[call.endpoint_name].is_active)
          => HttpStatus(call) = 403
    /\ Rejected(call, "method") => HttpStatus(call) = 405
    /\ Rejected(call, "rate_limit") => HttpStatus(call) = 429
    /\ Rejected(call, "monthly_quota") => HttpStatus(call) = 429

\* -------------------------------------------- credential headers: claims

AuthFinished == auth.pc \in {"endpoint", "done"} /\ ~auth.db_error

\* The request carries only the Authorization header, a Bearer token that is
\* the key of, or a valid JWT for, the active user u.
OnlyBearerOf(u) ==
    /\ auth.x_api_key = None
    /\ auth.authorization # None
    /\ auth.authorization[1].scheme = "Bearer"
    /\ auth.authorization[1].token.user = u
    /\ users[u].is_active

\* The request carries only the X-API-Key header, with the key of the
\* active user u.
OnlyXApiKeyOf(u) ==
    /\ auth.authorization = None
    /\ auth.x_api_key # None
    /\ auth.x_api_key[1].token = [kind |-> "api_key", user |-> u]
    /\ users[u].is_active

\* C22: a request with a valid credential in Authorization: Bearer or in
\* X-API-Key is resolved to its caller and goes on to the resource lookup; a
\* request with neither header ends with 401.
C22_CredentialResolved ==
    AuthFinished =>
        /\ \A u \in Users :
              (OnlyBearerOf(u) \/ OnlyXApiKeyOf(u))
                  => auth.pc = "endpoint" /\ auth.user = u
        /\ (auth.authorization = None /\ auth.x_api_key = None)
              => auth.pc = "done" /\ auth.status = 401

\* ---------------------------------------------- helper functions: claims

\* The precedence of the claim: override, else the resource's limit, else
\* the global default.
PrecedenceLimit ==
    LET override == calc.user.rate_limit_override IN
    IF IsSome(override) THEN Unwrap(override)
    ELSE IF IsSome(calc.endpoint_limit) THEN Unwrap(calc.endpoint_limit)
    ELSE default_rate_limit

Smaller(a, b) == IF a < b THEN a ELSE b

\* The limit of the caller's tier.
LimitOfTier ==
    CASE calc.user.tier = "Free" -> 100
      [] calc.user.tier = "Pro" -> 1000
      [] calc.user.tier = "Enterprise" -> 5000
      [] calc.user.tier = "Admin" -> 10000

TierRank(tier) ==
    CASE tier = "Free" -> 1
      [] tier = "Pro" -> 2
      [] tier = "Enterprise" -> 3
      [] tier = "Admin" -> 4

\* C25: check_permission is true exactly when the user's tier is at least
\* the required tier.
C25_PermissionOrder ==
    IsSome(calc.permitted) =>
        (Unwrap(calc.permitted) <=> TierRank(calc.user.tier) >= TierRank(calc.required_tier))

\* An Enterprise user asked for Enterprise is permitted.
C25_Witness ==
    /\ calc.user.tier = "Enterprise"
    /\ calc.required_tier = "Enterprise"
    /\ calc.permitted = Some(TRUE)

\* ---------------------------------------------- upstream headers: claims

\* The incoming entries whose name is not one of the nine hop-by-hop names,
\* and the provenance header.
ExpectedUpstream ==
    {hdrs.incoming[i] : i \in {j \in DOMAIN hdrs.incoming :
        hdrs.incoming[j].name \notin
            {"connection", "keep-alive", "proxy-authenticate",
             "proxy-authorization", "te", "trailers", "transfer-encoding",
             "upgrade", "host"}}}
    \cup {[name |-> "x-forwarded-by", value |-> "august-credits"]}

\* Every incoming value is text and no name comes twice.
PlainRequest ==
    \A i \in DOMAIN hdrs.incoming :
        /\ hdrs.incoming[i].value # "binary"
        /\ \A j \in DOMAIN hdrs.incoming :
              hdrs.incoming[j].name = hdrs.incoming[i].name => j = i

\* C24: on both paths the headers sent upstream are the incoming headers
\* without the nine hop-by-hop headers, plus x-forwarded-by; stated for
\* requests whose headers are text and single-valued.
C24_UpstreamHeaders ==
    PlainRequest =>
        /\ IsSome(hdrs.gateway_sent) => Unwrap(hdrs.gateway_sent) = ExpectedUpstream
        /\ IsSome(hdrs.proxy_sent) => Unwrap(hdrs.proxy_sent) = ExpectedUpstream

\* ------------------------------------------------ rate limiter: more claims

\* C26: in every reachable state, between the steps of any checks and sweeps
\* too, the window of every key holds at most as many timestamps as the
\* limit the window carries.
C26_AtMostLimit ==
    \A k \in DOMAIN rate_limits :
        Len(rate_limits[k].requests) <= rate_limits[k].limit

\* A key whose window is full, and a check of that key that was turned away.
C26_Witness ==
    \E k \in DOMAIN rate_limits :
        /\ rate_limits[k].limit >= 1
        /\ Len(rate_limits[k].requests) = rate_limits[k].limit
        /\ \E t \in Tasks : /\ task[t].pc = "done"
                            /\ task[t].key = k
                            /\ task[t].result = "RateLimit"

\* C27: a check that has reached the capacity test tests against the limit
\* and the window length computed in this call from the caller's override
\* and the resource's configuration as the call read them.
C27_EnforcesComputed ==
    \A t \in Tasks :
        (task[t].pc \in {"check", "push"} /\ task[t].key \in DOMAIN rate_limits) =>
            /\ rate_limits[task[t].key].limit = task[t].limit
            /\ rate_limits[task[t].key].window_seconds = task[t].window

\* C28: a check that has returned was either admitted or turned away for
\* the rate limit; it returned no other error.
C28_TwoOutcomes ==
    \A t \in Tasks :
        task[t].pc = "done" => task[t].result \in {"Ok", "RateLimit"}

\* The timestamps the rejecting check counted for the call's key and the
\* window length it applied: on the gateway path the cached window after
\* pruning, on the proxy path the request_logs rows of the pair inside the
\* endpoint's window.
RemainingTimestamps(c) ==
    IF c.path = "gateway"
    THEN LET k == cache_key(c.user, c.endpoint)
         IN  IF k \in DOMAIN rate_limits
             THEN {t \in 0..now : \E i \in DOMAIN rate_limits[k].requests :
                      /\ rate_limits[k].requests[i] = t
                      /\ now - t < rate_limits[k].window_seconds}
             ELSE {}
    ELSE {t \in 0..now : \E i \in DOMAIN request_logs :
             /\ request_logs[i].user_id = c.user
             /\ request_logs[i].endpoint_id = c.endpoint
             /\ request_logs[i].created_at = t
             /\ t >= now - UnwrapOr(endpoints[c.endpoint].rate_limit_window,
                                    proxy_default_window)}

WindowLength(c) ==
    IF c.path = "gateway"
    THEN rate_limits[cache_key(c.user, c.endpoint)].window_seconds
    ELSE UnwrapOr(endpoints[c.endpoint].rate_limit_window, proxy_default_window)

Oldest(S) == CHOOSE t \in S : \A x \in S : t <= x

\* C29: the step that turns a call away for the rate limit reports as reset
\* time the oldest timestamp left in the key's window plus the window
\* length.
C29_ResetTime ==
    [][(/\ call.pc = "rate_limit"
        /\ call'.pc = "done"
        /\ call'.result \in {"RateLimit", "RateLimitExceeded"}
        /\ RemainingTimestamps(call) # {})
       => call'.reset_time =
             Some(Oldest(RemainingTimestamps(call)) + WindowLength(call))]_vars

\* The keys of the cache that hold a timestamp younger than their window
\* length at time t.
LiveKeys(t) ==
    {k \in DOMAIN rate_limits :
        \E i \in DOMAIN rate_limits[k].requests :
            t - rate_limits[k].requests[i] < rate_limits[k].window_seconds}

\* A step of the sweep that changed the cache: no check moved and the
\* clock stood still.
SweepStep == rate_limits' # rate_limits /\ UNCHANGED <<now, task>>

\* C30: a sweep removes exactly the keys without a timestamp younger than
\* their window length; every key it leaves keeps its unexpired timestamps,
\* in order, and its limit and window length.
C30_SweepExact ==
    [][SweepStep =>
          /\ DOMAIN rate_limits' = LiveKeys(now)
          /\ \A k \in LiveKeys(now) :
                /\ rate_limits'[k].requests =
                      SelectSeq(rate_limits[k].requests,
                                LAMBDA ts : now - ts < rate_limits[k].window_seconds)
                /\ rate_limits'[k].limit = rate_limits[k].limit
                /\ rate_limits'[k].window_seconds = rate_limits[k].window_seconds]_vars

\* After a sweep: a key that had admitted checks is gone from the cache and
\* another key is still there with a timestamp.
C30_Witness ==
    \E k \in Keys, j \in DOMAIN rate_limits :
        /\ admitted[k] # << >>
        /\ k \notin DOMAIN rate_limits
        /\ rate_limits[j].requests # << >>
        /\ rl_lock = None

\* ------------------------------------------------ the sweep at run time

\* No check is running and none will start.
NoFurtherChecks ==
    /\ checks = MaxChecks
    /\ \A t \in Tasks : task[t].pc \in {"idle", "done"}

\* Key k is cached and none of its timestamps is younger than its window.
ExpiredKey(k) ==
    /\ k \in DOMAIN rate_limits
    /\ Retain(rate_limits[k].requests, now, rate_limits[k].window_seconds) = << >>

\* C31: a key that receives no further checks and whose timestamps have
\* expired is eventually removed from the map.
C31_EventuallyRemoved ==
    \A k \in Keys :
        (NoFurtherChecks /\ ExpiredKey(k)) ~> (k \notin DOMAIN rate_limits)

\* ---------------------------------------------- usage and request log: claims

\* The call has returned the upstream's response and no spawned job of the
\* handler is still to run.
ForwardedAndSettled ==
    /\ call.pc = "done"
    /\ call.result = "Response"
    /\ spawned = << >>

\* C32: once a call was forwarded and answered, the caller's recorded usage
\* holds a row of one request for the (caller, resource) pair, on the
\* gateway path as on the proxy path; usage is never recorded for a caller
\* who had no forwarded call.
C32_UsageRecorded ==
    /\ ForwardedAndSettled =>
          \E i \in DOMAIN usage_records :
              /\ usage_records[i].user_id = call.user
              /\ usage_records[i].endpoint_id = call.endpoint
              /\ usage_records[i].request_count = 1
    /\ \A i \in DOMAIN usage_records :
          \E j \in DOMAIN request_logs :
              /\ request_logs[j].user_id = usage_records[i].user_id
              /\ request_logs[j].endpoint_id = usage_records[i].endpoint_id

\* The rows of request_logs written for the call with this id.
RowsOf(id) == {j \in DOMAIN request_logs : request_logs[j].request_id = id}

\* The call passed admission and has ended, with the upstream's response or
\* with every attempt failed, and no spawned job is still to run.
ProcessedAndSettled ==
    /\ call.pc = "done"
    /\ call.failed = "none"
    /\ call.result = "Response" \/ call.fwd_error # "none"
    /\ spawned = << >>

\* C33: a call that passed admission has exactly one row in request_logs
\* once it has ended, whether the upstream answered or every attempt failed.
C33_OneRowPerCall ==
    ProcessedAndSettled => Cardinality(RowsOf(call.id)) = 1

\* ------------------------------------------- transaction executor: more claims

\* The positions inside wait_for_confirmation's loop.
PollStates == {"receipt", "height", "poll_sleep"}

\* A step in which wait_for_confirmation returns, with a result or an error.
LeavesPoll == exec.pc \in PollStates /\ exec'.pc \notin PollStates

C35_NoResubmission ==
    exec.pc \in {"retry_sleep", "send"} =>
        exec.receipt_polls = 0 /\ exec.height_polls = 0

\* ------------------------------------------- concurrent proxy calls: claims

\* The calls of caller u to endpoint e forwarded upstream in the window of w
\* seconds that starts at second t.
ForwardedIn(u, e, t, w) ==
    {q \in ProxyCalls :
        /\ proxy_calls[q].user = u
        /\ proxy_calls[q].endpoint = e
        /\ IsSome(proxy_calls[q].sent_at)
        /\ Unwrap(proxy_calls[q].sent_at) >= t
        /\ Unwrap(proxy_calls[q].sent_at) < t + w}

\* C36: for every caller, endpoint and window, the calls forwarded upstream
\* inside the window are at most the effective rate limit of the pair.
C36_ForwardedWithinLimit ==
    \A u \in Users, e \in Endpoints, t \in 0..now :
        Cardinality(ForwardedIn(u, e, t,
                UnwrapOr(endpoints[e].rate_limit_window, proxy_default_window)))
            <= get_rate_limit_for_user(users[u], endpoints[e].rate_limit)

\* C37: the request counts recorded for a caller with a monthly quota, all
\* of one billing period, sum to at most the quota.
C37_RecordedWithinQuota ==
    \A u \in Users :
        IsSome(get_monthly_limit_for_user(users[u])) =>
            SumCounts(SelectSeq(usage_records, LAMBDA r : r.user_id = u))
                <= Unwrap(get_monthly_limit_for_user(users[u]))

\* =========================================================================
\* The two retry loops side by side: GatewayService::forward_request and
\* ProxyService::make_upstream_request as proxy_request calls it, run on
\* the same endpoint configuration and the same upstream outcomes.
\* =========================================================================
MaxRetryAttempts == 3

\* api_endpoints.retry_attempts: NULL or a count.
RetryAttemptsValues == {None} \cup {Some(n) : n \in 0..MaxRetryAttempts}

\* What the upstream does with one attempt: it answers, the connection
\* fails, or the request timeout elapses.
AttemptOutcomes == {"response", "connect", "timeout"}

\* The upstream's behaviour for as many attempts as either loop can make.
OutcomeSeqs == [1..(MaxRetryAttempts + 1) -> AttemptOutcomes]

\* forward_request's `for attempt in 1..=max_retries` from `attempt` on, and
\* the Err after the loop (`last_error.unwrap()` panics if no attempt ran).
RECURSIVE GatewayLoop(_, _, _, _)
GatewayLoop(max_retries, outcomes, attempt, delays) ==
    IF attempt > max_retries
    THEN [attempts |-> attempt - 1, delays |-> delays,
          result |-> IF attempt = 1 THEN "panic" ELSE "Err",
          error |-> IF attempt = 1 THEN "none" ELSE "ExternalService"]
    ELSE IF outcomes[attempt] = "response"
    THEN [attempts |-> attempt, delays |-> delays, result |-> "Ok", error |-> "none"]
    ELSE GatewayLoop(max_retries, outcomes, attempt + 1,
                     IF attempt < max_retries
                     THEN Append(delays, BackoffDelayMs(attempt))
                     ELSE delays)

\* make_upstream_request's `for attempt in 1..=max_retries` from `attempt`
\* on, and the `unreachable!()` after the loop.
RECURSIVE ProxyLoop(_, _, _, _)
ProxyLoop(max_retries, outcomes, attempt, delays) ==
    IF attempt > max_retries
    THEN [attempts |-> attempt - 1, delays |-> delays, result |-> "panic",
          error |-> "none"]
    ELSE IF outcomes[attempt] = "response"
    THEN [attempts |-> attempt, delays |-> delays, result |-> "Ok", error |-> "none"]
    ELSE IF attempt = max_retries
    THEN [attempts |-> attempt, delays |-> delays, result |-> "Err",
          error |-> IF outcomes[attempt] = "timeout" THEN "Timeout"
                    ELSE "UpstreamError"]
    ELSE ProxyLoop(max_retries, outcomes, attempt + 1,
                   Append(delays, BackoffDelayMs(attempt)))

\* One endpoint configuration and one upstream behaviour, given to both.
RetryInit ==
    /\ now = 0
    /\ users = [u \in Users |-> NewUser]
    /\ endpoints = [e \in Endpoints |-> NewEndpoint]
    /\ rate_limits = << >>
    /\ rl_lock = None
    /\ task = [t \in Tasks |-> IdleTask]
    /\ admitted = [k \in Keys |-> << >>]
    /\ checks = 0
    /\ call = IdleCall
    /\ ncalls = 0
    /\ request_logs = << >>
    /\ usage_records = << >>
    /\ spawned = << >>
    /\ recorder = [r \in Recorders |-> IdleRecorder]
    /\ recorded = << >>
    /\ cycle = [c \in Cycles |-> IdleCycle]
    /\ ncycles = 0
    /\ nupdates = 0
    /\ EIdle
    /\ auth = IdleAuth
    /\ hdrs = IdleHdrs
    /\ calc = IdleCalc
    /\ proxy_calls = [q \in ProxyCalls |-> IdleProxyCall]
    /\ \E retry_attempts \in RetryAttemptsValues, outcomes \in OutcomeSeqs :
          fwd = [IdleFwd EXCEPT !.retry_attempts = retry_attempts,
                                !.outcomes = outcomes]

nonfwd == <<lvars, pvars, recorder, recorded, bvars, evars, avars, cvars, hvars, qvars>>

\* forward_request: `endpoint.retry_attempts.unwrap_or(0) + 1`, then the loop.
R_Gateway ==
    /\ fwd.gateway = None
    /\ fwd' = [fwd EXCEPT !.gateway =
                  Some(GatewayLoop(
                      GatewayMaxRetries([NewEndpoint EXCEPT
                          !.retry_attempts = fwd.retry_attempts]),
                      fwd.outcomes, 1, << >>))]
    /\ UNCHANGED nonfwd

\* proxy_request: `endpoint.retry_attempts.unwrap_or(3)` handed to
\* make_upstream_request, then the loop.
R_Proxy ==
    /\ fwd.proxy = None
    /\ fwd' = [fwd EXCEPT !.proxy =
                  Some(ProxyLoop(
                      ProxyMaxRetries([NewEndpoint EXCEPT
                          !.retry_attempts = fwd.retry_attempts]),
                      fwd.outcomes, 1, << >>))]
    /\ UNCHANGED nonfwd

RetryNext ==
    \/ R_Gateway
    \/ R_Proxy

SpecRetry == RetryInit /\ [][RetryNext]_vars

\* ------------------------------------------------ the retry loops: claims

\* C38: on the same retry_attempts and the same upstream outcomes, the
\* gateway's and the proxy's forwarder make the same number of attempts,
\* sleep the same delays and both succeed or both fail.
C38_ForwardersEquivalent ==
    (IsSome(fwd.gateway) /\ IsSome(fwd.proxy)) =>
        /\ Unwrap(fwd.gateway).attempts = Unwrap(fwd.proxy).attempts
        /\ Unwrap(fwd.gateway).delays = Unwrap(fwd.proxy).delays
        /\ Unwrap(fwd.gateway).result = Unwrap(fwd.proxy).result

\* ------------------------------------------------ rejected checks: claims

\* Task t's check ends in this step with the rate-limit error.
Rejects(t) == task[t].pc = "check" /\ task'[t].result = "RateLimit"

\* C39: a rejected check records no timestamp. When it returns, the key's
\* window holds the timestamps the check found, less the expired ones, in
\* order, with the same limit and window length; the history of admitted
\* checks is as it was, and so is the time at which the oldest timestamp
\* leaves the window.
C39_RejectionRecordsNothing ==
    [][\A t \in Tasks :
         Rejects(t) =>
            LET k == TaskKey(t)
                kept == SelectSeq(task[t].pre,
                            LAMBDA ts : task[t].t_now - ts < rate_limits[k].window_seconds)
            IN  /\ k \in DOMAIN rate_limits'
                /\ rate_limits'[k].requests = kept
                /\ rate_limits'[k].limit = rate_limits[k].limit
                /\ rate_limits'[k].window_seconds = rate_limits[k].window_seconds
                /\ reset_time(rate_limits'[k]) =
                      IF kept = << >> THEN None
                      ELSE Some(kept[1] + rate_limits[k].window_seconds)
                /\ admitted' = admitted]_vars

\* One check of a key was rejected on a full window; another check of the
\* key found the same window when its oldest timestamp was exactly one
\* window length old, and was admitted.
C39_Witness ==
    \E r \in Tasks, a \in Tasks :
        /\ r # a
        /\ TaskKey(r) = TaskKey(a)
        /\ task[r].result = "RateLimit"
        /\ task[r].pre # << >>
        /\ task[a].result = "Ok"
        /\ task[a].pre = task[r].pre
        /\ task[r].t_now < task[a].t_now
        /\ task[a].t_now = task[r].pre[1] + KeyWindow(TaskKey(a))

\* ------------------------------------------ the two resolvers: claims

\* The request passed the middleware and process_request has resolved its
\* credential, no query having failed.
PassedBothResolvers ==
    /\ auth.authenticated # "none"
    /\ auth.pc \in {"endpoint", "done"}
    /\ ~auth.db_error

\* C40: whatever Authorization and X-API-Key headers a request carries, if
\* it passes the middleware then process_request resolves the caller the
\* middleware authenticated.
C40_SameCaller ==
    PassedBothResolvers => auth.pc = "endpoint" /\ auth.user = auth.authenticated

====
